---- MODULE Spec2Model ----
(***************************************************************************)
(* A model of the ruwm water-meter / valve controller:                     *)
(*   - the water meter polling loop       (ruwm/src/water_meter.rs)        *)
(*   - the water meter statistics         (ruwm/src/water_meter_stats.rs)  *)
(*   - the valve outputs, the start-up path and the executors              *)
(*                                        (ruwm-esp32/src/main.rs)         *)
(*   - the screen input and render loops, draw()  (ruwm/src/screen.rs)     *)
(*   - the web middleware                 (ruwm-web/src/middleware.rs)     *)
(* Each component has a specification of its own (SpecWM, SpecWMFail,      *)
(* SpecStats, SpecCadence, SpecSpin, SpecMain, SpecRun, SpecScreen,        *)
(* SpecInput, SpecDraw, SpecWeb); the variables of the other components    *)
(* stay at their initial values.                                           *)
(***************************************************************************)
EXTENDS Integers, Sequences, FiniteSets, TLC

VARIABLES
    \* ---- water meter (water_meter.rs) ----
    pulse_counter,   \* the peripheral's data record {edges_count, wakeup_edges}
    command_signal,  \* WaterMeter.command_signal: single slot, "None" when empty
    wm_pc,           \* position of run(): "start", "select", "swap"
    wm_command,      \* which branch of select() the current/last iteration took
    wm_data,         \* the local `data`: the record to swap in, then the record swap_data returned
    wm_state,        \* the committed WaterMeterState of the StateSnapshot
    wm_state_sink,   \* the last values the state sink received (at most SinkKeep)
    wm_hist,         \* the last HistKeep completed iterations, <<command, delta>> each
    wm_error,        \* where run() returned Err; "none" while it has not
    pulse_total,     \* edges the peripheral has counted since construction
    \* ---- valve outputs (valve::start_spin, called from main.rs) ----
    valve_pins,      \* levels of the power, open and close outputs
    spin_cmd,        \* the argument of the current/last start_spin call; "Idle" before the first
    spin_todo,       \* the outputs the current start_spin call has not written yet
    spin_from,       \* the levels the current/last start_spin call found
    \* ---- start-up (main.rs run) ----
    wakeup_reason,   \* SleepWakeupReason
    main_pc,         \* position of run()
    main_error,      \* where run() returned Err; "none" while it has not
    system_init,     \* SYSTEM.init(System::new()) has run
    spawned,         \* number of tasks spawned so far, in the order of run()
    em_trace,        \* what emergency_valve_close has done so far
    \* ---- valve task (SYSTEM.valve / SYSTEM.valve_spin on executor1) ----
    valve_command,   \* the valve command signal: single slot, "None" when empty
    valve_pc,        \* position of the valve task
    valve_cmd,       \* the command the valve task accepted last; "None" before the first
    valve_state,     \* the committed Option<ValveState>
    \* ---- screen (screen.rs) ----
    screen_state,    \* STATE: the ScreenState {changeset, active_page, page_actions}
    draw_request,    \* DRAW_REQUEST_NOTIF: whether a wake is pending
    notify_count,    \* notify() calls on DRAW_REQUEST_NOTIF since the last wait() that returned
    draw_pc,         \* position of the render loop: "wait", "draw"
    draw_snapshot,   \* the ScreenState handed to draw(); <<>> while none is
    screen_triggered,\* the Action triggered last; "None" before the first
    screen_marked,   \* the flags marked dirty since the last wait() of the render loop returned
    screen_log,      \* the last pass of process() as the input specification records it
    draws_in_flight, \* calls of draw() that hold the display and have not returned it
    \* ---- water meter statistics (water_meter_stats.rs) ----
    stats_state,     \* the committed WaterMeterStatsState of the StateSnapshot
    stats_sink,      \* the last values the statistics sink received (at most SinkKeep)
    sys_now,         \* sys_time.now() in whole seconds, as of the last pass
    stats_wm_edges,  \* edges_count of the last WaterMeterState the water meter published
    stats_passes,    \* completed iterations of process()
    stats_branch,    \* which branch of select() the last iteration took
    stats_prev,      \* the committed state the last iteration started from
    \* ---- one call of draw() (screen.rs) ----
    draw_in,         \* the ScreenState given to draw()
    draw_out,        \* what draw() did to the display and returned; <<>> before the call
    \* ---- the executors (main.rs run, from "Starting execution") ----
    should_quit,     \* the value SYSTEM.should_quit() returns
    executors,       \* per executor 1..3: "idle", "checking", "polling", "returned"
    run_pc,          \* position of run() from the first thread spawn on
    \* ---- web middleware (ruwm-web middleware.rs send) ----
    request_id_gen,  \* the RequestId the next request gets
    web_first,       \* the value request_id_gen had when the middleware was applied
    web_actions,     \* the actions given to the middleware, in order
    web_requests,    \* the requests handed to the sender, in order
    web_dispatched   \* the actions forwarded to the dispatcher, in order

wmVars == <<pulse_counter, command_signal, wm_pc, wm_command, wm_data, wm_state,
            wm_state_sink, wm_hist, wm_error, pulse_total>>

spinVars == <<valve_pins, spin_cmd, spin_todo, spin_from>>

mainVars == <<wakeup_reason, main_pc, main_error, system_init, spawned, em_trace>>

valveVars == <<valve_command, valve_pc, valve_cmd, valve_state>>

screenVars == <<screen_state, draw_request, notify_count, draw_pc, draw_snapshot,
                screen_triggered, screen_marked, screen_log, draws_in_flight>>

statsVars == <<stats_state, stats_sink, sys_now, stats_wm_edges, stats_passes,
               stats_branch, stats_prev>>

drawVars == <<draw_in, draw_out>>

runVars == <<should_quit, executors, run_pc>>

webVars == <<request_id_gen, web_first, web_actions, web_requests, web_dispatched>>

\* the components that are specified on their own
otherVars == <<drawVars, runVars, webVars>>

vars == <<wmVars, spinVars, mainVars, valveVars, screenVars, statsVars, otherVars>>

\* what the water meter's steps leave alone
notWM == <<spinVars, mainVars, valveVars, screenVars, statsVars, otherVars>>

\* what the statistics' steps leave alone
notStats == <<wmVars, spinVars, mainVars, valveVars, screenVars, otherVars>>

(***************************************************************************)
(* Bounds                                                                  *)
(***************************************************************************)
\* edges the peripheral counts altogether (caps WaterMeterState.edges_count)
MaxTotalEdges == 5
\* how many of the sink's last received values are kept
SinkKeep == 2
\* how many completed iterations the history keeps
HistKeep == 2
\* notify() calls on the draw request counted between two waits that return
MaxBurst == 3
\* passes of the statistics loop with a free clock
MaxPasses == 3
\* the largest most_recent.edges_count the statistics reach
MaxStatsEdges == 8
\* the largest running total the water meter publishes to the statistics
MaxStatsWmEdges == 2
\* the last second at which a pass of the 10-second cadence starts
CadenceEnd == 320
\* edges the peripheral counts in the runs where run() can fail
MaxFailEdges == 2
\* actions given to the web middleware
MaxActions == 3

(***************************************************************************)
(* Water meter                                                             *)
(***************************************************************************)
WaterMeterCommand == {"Arm", "Disarm"}

\* #[derive(Default)] WaterMeterState
WaterMeterStateDefault ==
    [prev_edges_count |-> 0, prev_armed |-> FALSE, prev_leaking |-> FALSE,
     edges_count |-> 0, armed |-> FALSE, leaking |-> FALSE]

\* the last n elements of s, with x appended
KeepLast(s, x, n) ==
    LET t == Append(s, x)
    IN  IF Len(t) > n THEN SubSeq(t, Len(t) - n + 1, Len(t)) ELSE t

\* mutant of CommandData: the command branch forgets `data.edges_count = 0`
CommandData_KeepEdges(command, data) ==
    [edges_count |-> data.edges_count,
     wakeup_edges |-> IF command = "Arm" THEN 1 ELSE 0]

\* Either::First: the record built from get_data() on a command
CommandData(command, data) ==
    [edges_count |-> 0,
     wakeup_edges |-> IF command = "Arm" THEN 1 ELSE 0]

\* mutant of TickData: the tick branch forgets `data.edges_count = 0`
TickData_KeepEdges(data) == data

\* Either::Second: the record built from get_data() on a timer tick
TickData(data) ==
    [data EXCEPT !.edges_count = 0]

\* mutant of WmUpdate: the total is overwritten by the delta, not increased by it
WmUpdate_NoAccumulate(state, data) ==
    [prev_edges_count |-> state.edges_count,
     prev_armed       |-> state.armed,
     prev_leaking     |-> state.leaking,
     edges_count      |-> data.edges_count,
     armed            |-> data.wakeup_edges > 0,
     leaking          |-> /\ state.edges_count < state.edges_count + data.edges_count
                          /\ state.armed
                          /\ data.wakeup_edges > 0]

\* mutant of WmUpdate: leaking does not ask whether the meter was armed before
WmUpdate_IgnoreWasArmed(state, data) ==
    [prev_edges_count |-> state.edges_count,
     prev_armed       |-> state.armed,
     prev_leaking     |-> state.leaking,
     edges_count      |-> state.edges_count + data.edges_count,
     armed            |-> data.wakeup_edges > 0,
     leaking          |-> /\ state.edges_count < state.edges_count + data.edges_count
                          /\ data.wakeup_edges > 0]

\* mutant of WmUpdate: leaking does not ask for the wake threshold of the delta
WmUpdate_IgnoreThreshold(state, data) ==
    [prev_edges_count |-> state.edges_count,
     prev_armed       |-> state.armed,
     prev_leaking     |-> state.leaking,
     edges_count      |-> state.edges_count + data.edges_count,
     armed            |-> data.wakeup_edges > 0,
     leaking          |-> /\ state.edges_count < state.edges_count + data.edges_count
                          /\ state.armed]

\* the closure passed to update_with
WmUpdate(state, data) ==
    [prev_edges_count |-> state.edges_count,
     prev_armed       |-> state.armed,
     prev_leaking     |-> state.leaking,
     edges_count      |-> state.edges_count + data.edges_count,
     armed            |-> data.wakeup_edges > 0,
     leaking          |-> /\ state.edges_count < state.edges_count + data.edges_count
                          /\ state.armed
                          /\ data.wakeup_edges > 0]

\* mutant of SnapshotChanged: every update is committed and forwarded
SnapshotChanged_Always(old, new) == TRUE

\* StateSnapshot::update_with: whether the new value is committed and forwarded
SnapshotChanged(old, new) == new # old

\* StateSnapshot::update_with: the committed value after the update
SnapshotCommit(old, new) == IF SnapshotChanged(old, new) THEN new ELSE old

\* StateSnapshot::update_with: what the sink holds after the update
SnapshotForward(sink, old, new) ==
    IF SnapshotChanged(old, new) THEN KeepLast(sink, new, SinkKeep) ELSE sink

\* PulseCounter::swap_data: the atomic exchange, <<the installed record, the returned record>>
SwapData(current, new) == <<new, current>>

\* mutant of UpdateData: the update uses the record that was swapped in
UpdateData_Installed(installed, returned) == installed

\* the `data` the update closure reads: the value of the match, which is the
\* record swap_data returned, not the record built from get_data
UpdateData(installed, returned) == returned

WMInit ==
    /\ pulse_counter \in [edges_count : {0}, wakeup_edges : {0, 1}]
    /\ command_signal = "None"
    /\ wm_pc = "start"
    /\ wm_command = "None"
    /\ wm_data = [edges_count |-> 0, wakeup_edges |-> 0]
    /\ wm_state = WaterMeterStateDefault
    /\ wm_state_sink = <<>>
    /\ wm_hist = <<>>
    /\ wm_error = "none"
    /\ pulse_total = 0

\* the peripheral counts one edge, concurrently with run()
PulseEdge ==
    /\ wm_state.edges_count + pulse_counter.edges_count < MaxTotalEdges
    /\ pulse_counter' = [pulse_counter EXCEPT !.edges_count = @ + 1]
    /\ pulse_total' = pulse_total + 1
    /\ UNCHANGED notWM
    /\ UNCHANGED <<command_signal, wm_pc, wm_command, wm_data, wm_state,
                   wm_state_sink, wm_hist, wm_error>>

\* command_sink().send(c): the signal keeps the latest command
SendCommand(c) ==
    /\ command_signal' = c
    /\ UNCHANGED notWM
    /\ UNCHANGED <<pulse_counter, wm_pc, wm_command, wm_data, wm_state,
                   wm_state_sink, wm_hist, wm_error, pulse_total>>

\* pulse_counter.start()
WmStart ==
    /\ wm_pc = "start"
    /\ wm_pc' = "select"
    /\ UNCHANGED notWM
    /\ UNCHANGED <<pulse_counter, command_signal, wm_command, wm_data, wm_state,
                   wm_state_sink, wm_hist, wm_error, pulse_total>>

\* select() resolves with the command: get_data, reset edges, set the threshold
WmSelectCommand ==
    /\ wm_pc = "select"
    /\ command_signal # "None"
    /\ wm_command' = command_signal
    /\ command_signal' = "None"
    /\ wm_data' = CommandData(command_signal, pulse_counter)
    /\ wm_pc' = "swap"
    /\ UNCHANGED notWM
    /\ UNCHANGED <<pulse_counter, wm_state, wm_state_sink, wm_hist, wm_error,
                   pulse_total>>

\* select() resolves with the 2 s tick: get_data, reset edges
WmSelectTick ==
    /\ wm_pc = "select"
    /\ wm_command' = "Tick"
    /\ wm_data' = TickData(pulse_counter)
    /\ wm_pc' = "swap"
    /\ UNCHANGED notWM
    /\ UNCHANGED <<pulse_counter, command_signal, wm_state, wm_state_sink, wm_hist,
                   wm_error, pulse_total>>

\* swap_data(&data), then state.update_with(closure, &mut state_sink)
WmSwapUpdate ==
    /\ wm_pc = "swap"
    /\ LET swapped == SwapData(pulse_counter, wm_data)
           delta   == UpdateData(wm_data, swapped[2])
           new     == WmUpdate(wm_state, delta)
       IN  /\ pulse_counter' = swapped[1]
           /\ wm_data' = delta
           /\ wm_state' = SnapshotCommit(wm_state, new)
           /\ wm_state_sink' = SnapshotForward(wm_state_sink, wm_state, new)
           /\ wm_hist' = KeepLast(wm_hist, <<wm_command, delta>>, HistKeep)
    /\ wm_pc' = "select"
    /\ UNCHANGED notWM
    /\ UNCHANGED <<command_signal, wm_command, wm_error, pulse_total>>

WMNext ==
    \/ PulseEdge
    \/ \E c \in WaterMeterCommand : SendCommand(c)
    \/ WmStart
    \/ WmSelectCommand
    \/ WmSelectTick
    \/ WmSwapUpdate

(***************************************************************************)
(* Water meter statistics: water_meter_stats.rs                            *)
(***************************************************************************)
\* const FLOW_STATS_INSTANCES
FLOW_STATS_INSTANCES == 8

\* const DURATIONS, in seconds
DURATIONS ==
    <<60 * 5, 60 * 30, 60 * 60, 60 * 60 * 6, 60 * 60 * 12, 60 * 60 * 24,
      60 * 60 * 24 * 7, 60 * 60 * 24 * 30>>

\* the timeout of the timer process() arms in every iteration, in seconds
StatsTimerSecs == 10

\* FlowSnapshot::new
FlowSnapshot(current_time, current_edges_count) ==
    [time |-> current_time, edges_count |-> current_edges_count]

\* mutant of FlowMeasurement: the two snapshots are stored the other way round
FlowMeasurement_Swapped(start, end) == [start |-> end, end |-> start]

\* FlowMeasurement::new
FlowMeasurement(start, end) == [start |-> start, end |-> end]

\* mutant of IsNonalignedMeasurementDue: the duration has to be exceeded
IsNonalignedMeasurementDue_Strict(start_time, current_time, measurement_duration) ==
    current_time - start_time > measurement_duration

\* FlowSnapshot::is_nonaligned_measurement_due
IsNonalignedMeasurementDue(start_time, current_time, measurement_duration) ==
    current_time - start_time >= measurement_duration

\* mutant of IsAlignedMeasurementDue: the start time is not aligned
IsAlignedMeasurementDue_Nonaligned(start_time, current_time, measurement_duration) ==
    IsNonalignedMeasurementDue(start_time, current_time, measurement_duration)

\* FlowSnapshot::is_aligned_measurement_due
IsAlignedMeasurementDue(start_time, current_time, measurement_duration) ==
    IsNonalignedMeasurementDue(
        (start_time \div measurement_duration) * measurement_duration,
        current_time, measurement_duration)

\* FlowSnapshot::is_measurement_due
IsMeasurementDue(snapshot, measurement_duration, current_time) ==
    IsAlignedMeasurementDue(snapshot.time, current_time, measurement_duration)

\* mutant of WindowStart: the window restarts at the boundary that was crossed
WindowStart_Boundary(most_recent, measurement_duration) ==
    FlowSnapshot((most_recent.time \div measurement_duration) * measurement_duration,
                 most_recent.edges_count)

\* mem::replace(snapshot, self.most_recent.clone()): the window's new snapshot
WindowStart(most_recent, measurement_duration) == most_recent

\* #[derive(Default)] WaterMeterStatsState; <<>> is None, <<m>> is Some(m)
WaterMeterStatsStateDefault ==
    [installation |-> FlowSnapshot(0, 0),
     most_recent  |-> FlowSnapshot(0, 0),
     snapshots    |-> [i \in 1..FLOW_STATS_INSTANCES |-> FlowSnapshot(0, 0)],
     measurements |-> [i \in 1..FLOW_STATS_INSTANCES |-> <<>>]]

\* mutant of StatsUpdate: a due window keeps its snapshot
StatsUpdate_KeepsSnapshot(state, edges_count, now) ==
    LET most_recent == FlowSnapshot(now, state.most_recent.edges_count + edges_count)
        due(i) == IsMeasurementDue(state.snapshots[i], DURATIONS[i], now)
    IN  [installation |-> state.installation,
         most_recent  |-> most_recent,
         snapshots    |-> state.snapshots,
         measurements |-> [i \in 1..FLOW_STATS_INSTANCES |->
                              IF due(i)
                              THEN <<FlowMeasurement(state.snapshots[i], most_recent)>>
                              ELSE state.measurements[i]]]

\* WaterMeterStatsState::update: the state it leaves in self
StatsUpdate(state, edges_count, now) ==
    LET most_recent == FlowSnapshot(now, state.most_recent.edges_count + edges_count)
        due(i) == IsMeasurementDue(state.snapshots[i], DURATIONS[i], now)
    IN  [installation |-> state.installation,
         most_recent  |-> most_recent,
         snapshots    |-> [i \in 1..FLOW_STATS_INSTANCES |->
                              IF due(i) THEN WindowStart(most_recent, DURATIONS[i])
                              ELSE state.snapshots[i]],
         measurements |-> [i \in 1..FLOW_STATS_INSTANCES |->
                              IF due(i)
                              THEN <<FlowMeasurement(state.snapshots[i], most_recent)>>
                              ELSE state.measurements[i]]]

\* Either::First: the edges_count figure taken from the received WaterMeterState
StatsEdgesReceived(wm_edges_count) == wm_edges_count

\* Either::Second: the edges_count figure taken on the 10 s timeout
StatsEdgesTimeout(state) == state.most_recent.edges_count

\* state.update_with(|state| { state.update(edges_count, sys_time.now()) }, &mut state_sink)
StatsPass(branch, edges_count, now) ==
    LET new == StatsUpdate(stats_state, edges_count, now)
    IN  /\ stats_prev' = stats_state
        /\ stats_state' = SnapshotCommit(stats_state, new)
        /\ stats_sink' = SnapshotForward(stats_sink, stats_state, new)
        /\ stats_branch' = branch
        /\ sys_now' = now
        /\ stats_passes' = stats_passes + 1
        /\ UNCHANGED notStats

\* select() resolves with a WaterMeterState published `elapsed` seconds after
\* the previous pass; its edges_count is the water meter's running total
StatsRecv(wm_edges_count, elapsed) ==
    /\ wm_edges_count >= stats_wm_edges
    /\ stats_state.most_recent.edges_count + StatsEdgesReceived(wm_edges_count)
         <= MaxStatsEdges
    /\ stats_wm_edges' = wm_edges_count
    /\ StatsPass("recv", StatsEdgesReceived(wm_edges_count), sys_now + elapsed)

\* select() resolves with the timer, `elapsed` seconds after the previous pass
StatsTimeout(elapsed) ==
    /\ elapsed >= StatsTimerSecs
    /\ stats_state.most_recent.edges_count + StatsEdgesTimeout(stats_state)
         <= MaxStatsEdges
    /\ UNCHANGED stats_wm_edges
    /\ StatsPass("timeout", StatsEdgesTimeout(stats_state), sys_now + elapsed)

\* WaterMeterStats::new(), no pass yet
StatsInit ==
    /\ stats_state = WaterMeterStatsStateDefault
    /\ stats_sink = <<>>
    /\ sys_now = 0
    /\ stats_wm_edges = 0
    /\ stats_passes = 0
    /\ stats_branch = "none"
    /\ stats_prev = WaterMeterStatsStateDefault

(***************************************************************************)
(* Initial values of each component                                        *)
(***************************************************************************)
Pins == {"power", "open", "close"}

AllLow == [p \in Pins |-> 0]

\* the outputs after into_output(), no start_spin call yet
SpinInit ==
    /\ valve_pins = AllLow
    /\ spin_cmd = "Idle"
    /\ spin_todo = {}
    /\ spin_from = AllLow

\* enum SleepWakeupReason
SleepWakeupReason == {"Unknown", "ULP", "Button", "Timer", "Other"}

MainInit ==
    /\ wakeup_reason \in SleepWakeupReason
    /\ main_pc = "start"
    /\ main_error = "none"
    /\ system_init = FALSE
    /\ spawned = 0
    /\ em_trace = <<>>

ValveInit ==
    /\ valve_command = "None"
    /\ valve_pc = "idle"
    /\ valve_cmd = "None"
    /\ valve_state = "None"

\* enum DataSource
DataSource == {"Page", "Valve", "WM", "WMStats", "Battery", "RemainingTime"}

\* ScreenState::new(), the notification statics, the render loop before its first wait
ScreenInit ==
    /\ screen_state = [changeset |-> DataSource, active_page |-> "Summary",
                       page_actions |-> <<>>]
    /\ draw_request = FALSE
    /\ notify_count = 0
    /\ draw_pc = "wait"
    /\ draw_snapshot = <<>>
    /\ screen_triggered = "None"
    /\ screen_marked = DataSource
    /\ screen_log = [index |-> -1, active |-> {}, fired |-> <<>>]
    /\ draws_in_flight = 0

\* no call of draw() yet
DrawIdle ==
    /\ draw_in = [changeset |-> DataSource, active_page |-> "Summary",
                  page_actions |-> <<>>]
    /\ draw_out = <<>>

\* the three executors built (main.rs 143-145), none running yet
RunIdle ==
    /\ should_quit = FALSE
    /\ executors = [e \in 1..3 |-> "idle"]
    /\ run_pc = "spawn2"

\* the middleware applied with a generator at 0, no action yet
WebIdle ==
    /\ request_id_gen = 0
    /\ web_first = 0
    /\ web_actions = <<>>
    /\ web_requests = <<>>
    /\ web_dispatched = <<>>

\* the components that are specified on their own, before their first step
OtherInit == DrawIdle /\ RunIdle /\ WebIdle

\* the start-up path held at its first position
MainIdle ==
    /\ wakeup_reason = "Unknown"
    /\ main_pc = "start"
    /\ main_error = "none"
    /\ system_init = FALSE
    /\ spawned = 0
    /\ em_trace = <<>>

InitWM == WMInit /\ SpinInit /\ MainIdle /\ ValveInit /\ ScreenInit /\ StatsInit /\ OtherInit

SpecWM == InitWM /\ [][WMNext]_vars

(***************************************************************************)
(* Water meter: the exits of run() on an error                             *)
(***************************************************************************)
\* mutant of AfterFailure: the loop goes on to its next iteration
AfterFailure_Retry == "select"

\* where run() is after a `?` met an Err: it has returned
AfterFailure == "error"

\* run() returns Err from `site`; nothing else of the water meter changes
WmReturnErr(site) ==
    /\ wm_error' = site
    /\ wm_pc' = AfterFailure
    /\ UNCHANGED notWM
    /\ UNCHANGED <<pulse_counter, wm_data, wm_state, wm_hist, pulse_total>>

\* pulse_counter.start() returns Err
WmFailStart ==
    /\ wm_pc = "start"
    /\ WmReturnErr("start")
    /\ UNCHANGED <<command_signal, wm_command, wm_state_sink>>

\* timer.after(2 s) returns Err at the top of an iteration
WmFailTimer ==
    /\ wm_pc = "select"
    /\ WmReturnErr("timer")
    /\ UNCHANGED <<command_signal, wm_command, wm_state_sink>>

\* select() resolves with the receiver's Err
WmFailRecv ==
    /\ wm_pc = "select"
    /\ WmReturnErr("command")
    /\ wm_command' = "Err"
    /\ UNCHANGED <<command_signal, wm_state_sink>>

\* get_data() returns Err in the command branch: the command has been received
WmFailGetDataCommand ==
    /\ wm_pc = "select"
    /\ command_signal # "None"
    /\ wm_command' = command_signal
    /\ command_signal' = "None"
    /\ WmReturnErr("get_data")
    /\ UNCHANGED wm_state_sink

\* get_data() returns Err in the tick branch
WmFailGetDataTick ==
    /\ wm_pc = "select"
    /\ wm_command' = "Tick"
    /\ WmReturnErr("get_data")
    /\ UNCHANGED <<command_signal, wm_state_sink>>

\* swap_data(&data) returns Err: no record is exchanged
WmFailSwap ==
    /\ wm_pc = "swap"
    /\ WmReturnErr("swap_data")
    /\ UNCHANGED <<command_signal, wm_command, wm_state_sink>>

\* swap_data succeeds and update_with returns Err: the closure always returns Ok,
\* so the Err is the sink's, met after the changed value was committed
WmFailUpdate ==
    /\ wm_pc = "swap"
    /\ LET swapped == SwapData(pulse_counter, wm_data)
           delta   == UpdateData(wm_data, swapped[2])
           new     == WmUpdate(wm_state, delta)
       IN  /\ SnapshotChanged(wm_state, new)
           /\ pulse_counter' = swapped[1]
           /\ wm_data' = delta
           /\ wm_state' = SnapshotCommit(wm_state, new)
    /\ wm_error' = "update"
    /\ wm_pc' = AfterFailure
    /\ UNCHANGED notWM
    /\ UNCHANGED <<command_signal, wm_command, wm_state_sink, wm_hist, pulse_total>>

\* the steps of the failure-free run, for the first MaxFailEdges edges
WMFailRun == WMNext /\ pulse_total' <= MaxFailEdges

WMFailNext ==
    \/ WMFailRun
    \/ WmFailStart
    \/ WmFailTimer
    \/ WmFailRecv
    \/ WmFailGetDataCommand
    \/ WmFailGetDataTick
    \/ WmFailSwap
    \/ WmFailUpdate

SpecWMFail == InitWM /\ [][WMFailNext]_vars

(***************************************************************************)
(* Valve outputs: valve::start_spin                                        *)
(***************************************************************************)
ValveCommand == {"Open", "Close"}

\* mutant of SpinLevel: the stop leaves the power output as it is told for a spin
SpinLevel_StopKeepsPower(cmd, pin) ==
    CASE cmd = "Open"  -> IF pin = "close" THEN 0 ELSE 1
      [] cmd = "Close" -> IF pin = "open" THEN 0 ELSE 1
      [] OTHER         -> IF pin = "power" THEN 1 ELSE 0

\* the level start_spin(cmd) writes to an output
SpinLevel(cmd, pin) ==
    CASE cmd = "Open"  -> IF pin = "close" THEN 0 ELSE 1
      [] cmd = "Close" -> IF pin = "open" THEN 0 ELSE 1
      [] OTHER         -> 0

\* start_spin(cmd, power_pin, open_pin, close_pin) is entered
StartSpin(cmd) ==
    /\ spin_cmd' = cmd
    /\ spin_todo' = Pins
    /\ spin_from' = valve_pins
    /\ UNCHANGED valve_pins

\* start_spin writes one output; the order of the three writes is left open
WritePin(p) ==
    /\ p \in spin_todo
    /\ valve_pins' = [valve_pins EXCEPT ![p] = SpinLevel(spin_cmd, p)]
    /\ spin_todo' = spin_todo \ {p}
    /\ UNCHANGED <<spin_cmd, spin_from>>

\* start_spin called with any argument, from any levels
SpinCall(cmd) ==
    /\ spin_todo = {}
    /\ StartSpin(cmd)
    /\ UNCHANGED <<otherVars, statsVars, wmVars, mainVars, valveVars, screenVars>>

SpinWrite(p) ==
    /\ WritePin(p)
    /\ UNCHANGED <<otherVars, statsVars, wmVars, mainVars, valveVars, screenVars>>

SpinAnyInit ==
    /\ valve_pins \in [Pins -> {0, 1}]
    /\ spin_cmd = "Idle"
    /\ spin_todo = {}
    /\ spin_from = valve_pins

InitSpin ==
    /\ WMInit /\ pulse_counter.wakeup_edges = 0
    /\ SpinAnyInit /\ MainIdle /\ ValveInit /\ ScreenInit /\ StatsInit /\ OtherInit

SpinNext ==
    \/ \E cmd \in ValveCommand \cup {"None"} : SpinCall(cmd)
    \/ \E p \in Pins : SpinWrite(p)

SpecSpin == InitSpin /\ [][SpinNext]_vars

(***************************************************************************)
(* Start-up: main.rs run() and emergency_valve_close()                     *)
(***************************************************************************)
\* the tasks run() spawns, in order, each with its executor
Tasks ==
    << <<"valve", 1>>, <<"valve_spin", 1>>, <<"wm", 1>>, <<"wm_stats", 2>>,
       <<"battery", 2>>, <<"button1", 1>>, <<"button2", 2>>, <<"button3", 1>>,
       <<"emergency", 2>>, <<"keepalive", 2>>, <<"screen_draw", 2>>,
       <<"screen", 2>>, <<"mqtt_send", 3>>, <<"mqtt_receive", 3>>,
       <<"web_send", 3>>, <<"web_receive", 3>>, <<"wifi", 3>> >>

\* mutant of AfterPins: the wake reason is not looked at
AfterPins_SkipEmergency(reason) == "mark_pins"

\* where run() goes once it holds the three outputs
AfterPins(reason) == IF reason = "ULP" THEN "em_close" ELSE "mark_pins"

\* emergency_valve_close: the argument of its first start_spin call
EmFirstCommand == "Close"

\* mutant of EmSecondCommand: the second call reverses the motor instead of stopping it
EmSecondCommand_Open == "Open"

\* emergency_valve_close: the argument of its second start_spin call
EmSecondCommand == "None"

\* Peripherals::take, into_output()? x 3, the wake reason test
MainTakePins ==
    /\ main_pc = "start"
    /\ main_pc' = AfterPins(wakeup_reason)
    /\ UNCHANGED <<wakeup_reason, main_error, system_init, spawned, em_trace>>
    /\ UNCHANGED <<otherVars, statsVars, wmVars, spinVars, valveVars, screenVars>>

\* a fallible step of run() returns Err: into_output, a pin write inside
\* start_spin, mark_wakeup_pins, the network services, a spawn
MainFail ==
    /\ \/ main_pc \in {"start", "mark_pins", "services", "spawn"}
       \/ main_pc \in {"em_closing", "em_stopping"} /\ spin_todo # {}
    /\ main_error' = IF main_pc \in {"em_closing", "em_stopping"}
                     THEN "emergency" ELSE main_pc
    /\ main_pc' = "error"
    /\ UNCHANGED <<wakeup_reason, system_init, spawned, em_trace>>
    /\ UNCHANGED <<otherVars, statsVars, wmVars, spinVars, valveVars, screenVars>>

\* valve::start_spin(Some(ValveCommand::Close), ...) is called
EmClose ==
    /\ main_pc = "em_close"
    /\ StartSpin(EmFirstCommand)
    /\ em_trace' = Append(em_trace, EmFirstCommand)
    /\ main_pc' = "em_closing"
    /\ UNCHANGED <<wakeup_reason, main_error, system_init, spawned>>
    /\ UNCHANGED <<otherVars, statsVars, wmVars, valveVars, screenVars>>

\* one pin write of the start_spin call in progress
EmWrite(p) ==
    /\ main_pc \in {"em_closing", "em_stopping"}
    /\ WritePin(p)
    /\ UNCHANGED <<otherVars, statsVars, wmVars, mainVars, valveVars, screenVars>>

\* the first call returns Ok; std::thread::sleep(VALVE_TURN_DELAY) begins
EmClosed ==
    /\ main_pc = "em_closing"
    /\ spin_todo = {}
    /\ main_pc' = "em_sleep"
    /\ UNCHANGED <<wakeup_reason, main_error, system_init, spawned, em_trace>>
    /\ UNCHANGED <<otherVars, statsVars, wmVars, spinVars, valveVars, screenVars>>

\* the sleep returns; valve::start_spin(None, ...) is called
EmWake ==
    /\ main_pc = "em_sleep"
    /\ StartSpin(EmSecondCommand)
    /\ em_trace' = Append(Append(em_trace, "Delay"), EmSecondCommand)
    /\ main_pc' = "em_stopping"
    /\ UNCHANGED <<wakeup_reason, main_error, system_init, spawned>>
    /\ UNCHANGED <<otherVars, statsVars, wmVars, valveVars, screenVars>>

\* the second call returns Ok; emergency_valve_close returns Ok
EmStopped ==
    /\ main_pc = "em_stopping"
    /\ spin_todo = {}
    /\ main_pc' = "mark_pins"
    /\ UNCHANGED <<wakeup_reason, main_error, system_init, spawned, em_trace>>
    /\ UNCHANGED <<otherVars, statsVars, wmVars, spinVars, valveVars, screenVars>>

\* mark_wakeup_pins(...)?
MainMarkPins ==
    /\ main_pc = "mark_pins"
    /\ main_pc' = "system_init"
    /\ UNCHANGED <<wakeup_reason, main_error, system_init, spawned, em_trace>>
    /\ UNCHANGED <<otherVars, statsVars, wmVars, spinVars, valveVars, screenVars>>

\* SYSTEM.init(System::new())
MainSystemInit ==
    /\ main_pc = "system_init"
    /\ system_init' = TRUE
    /\ main_pc' = "services"
    /\ UNCHANGED <<wakeup_reason, main_error, spawned, em_trace>>
    /\ UNCHANGED <<otherVars, statsVars, wmVars, spinVars, valveVars, screenVars>>

\* netif, sysloop, nvs, wifi, httpd, mqtt, timers, the three executors
MainServices ==
    /\ main_pc = "services"
    /\ main_pc' = "spawn"
    /\ UNCHANGED <<wakeup_reason, main_error, system_init, spawned, em_trace>>
    /\ UNCHANGED <<otherVars, statsVars, wmVars, spinVars, valveVars, screenVars>>

\* the next task of Tasks is spawned into its executor
MainSpawn ==
    /\ main_pc = "spawn"
    /\ spawned < Len(Tasks)
    /\ spawned' = spawned + 1
    /\ UNCHANGED <<wakeup_reason, main_pc, main_error, system_init, em_trace>>
    /\ UNCHANGED <<otherVars, statsVars, wmVars, spinVars, valveVars, screenVars>>

\* the executor threads are started and executor1 runs on this thread
MainStartExecutors ==
    /\ main_pc = "spawn"
    /\ spawned = Len(Tasks)
    /\ main_pc' = "run"
    /\ UNCHANGED <<wakeup_reason, main_error, system_init, spawned, em_trace>>
    /\ UNCHANGED <<otherVars, statsVars, wmVars, spinVars, valveVars, screenVars>>

(***************************************************************************)
(* The valve task on executor1 (spec section 4.3)                          *)
(***************************************************************************)
\* ValveState while the motor turns
Spinning(cmd) == IF cmd = "Open" THEN "Opening" ELSE "Closing"

\* ValveState once the motor has been stopped
Resting(cmd) == IF cmd = "Open" THEN "Open" ELSE "Closed"

\* mutant of ValveStopCommand: the motor is driven on after the timer
ValveStopCommand_KeepsTurning(cmd) == cmd

\* what the valve task passes to start_spin when the turn timer expires
ValveStopCommand(cmd) == "None"

\* a ValveCommand is sent to the valve command signal
ValveSend(c) ==
    /\ main_pc = "run"
    /\ valve_command' = c
    /\ UNCHANGED <<valve_pc, valve_cmd, valve_state>>
    /\ UNCHANGED <<otherVars, statsVars, wmVars, spinVars, mainVars, screenVars>>

\* the task accepts the command, publishes Opening/Closing, calls start_spin(Some(command))
ValveAccept ==
    /\ main_pc = "run"
    /\ valve_pc = "idle"
    /\ valve_command # "None"
    /\ valve_cmd' = valve_command
    /\ valve_command' = "None"
    /\ valve_state' = SnapshotCommit(valve_state, Spinning(valve_command))
    /\ StartSpin(valve_command)
    /\ valve_pc' = "spinning"
    /\ UNCHANGED <<otherVars, statsVars, wmVars, mainVars, screenVars>>

\* one pin write of the start_spin call in progress
ValveWrite(p) ==
    /\ valve_pc \in {"spinning", "stopping"}
    /\ WritePin(p)
    /\ UNCHANGED <<otherVars, statsVars, wmVars, mainVars, valveVars, screenVars>>

\* start_spin has returned; the one-shot timer is armed with VALVE_TURN_DELAY
ValveTimerArm ==
    /\ valve_pc = "spinning"
    /\ spin_todo = {}
    /\ valve_pc' = "timer"
    /\ UNCHANGED <<valve_command, valve_cmd, valve_state>>
    /\ UNCHANGED <<otherVars, statsVars, wmVars, spinVars, mainVars, screenVars>>

\* the timer expires; start_spin(None) is called
ValveTimerExpire ==
    /\ valve_pc = "timer"
    /\ StartSpin(ValveStopCommand(valve_cmd))
    /\ valve_pc' = "stopping"
    /\ UNCHANGED <<valve_command, valve_cmd, valve_state>>
    /\ UNCHANGED <<otherVars, statsVars, wmVars, mainVars, screenVars>>

\* the stop has returned; the task publishes Open/Closed
ValveStopped ==
    /\ valve_pc = "stopping"
    /\ spin_todo = {}
    /\ valve_state' = SnapshotCommit(valve_state, Resting(valve_cmd))
    /\ valve_pc' = "idle"
    /\ UNCHANGED <<valve_command, valve_cmd>>
    /\ UNCHANGED <<otherVars, statsVars, wmVars, spinVars, mainVars, screenVars>>

\* the steps the executor takes for the valve task once a command is accepted
ValveTaskStep ==
    \/ \E p \in Pins : ValveWrite(p)
    \/ ValveTimerArm
    \/ ValveTimerExpire
    \/ ValveStopped

InitMain ==
    /\ WMInit /\ pulse_counter.wakeup_edges = 0
    /\ SpinInit /\ MainInit /\ ValveInit /\ ScreenInit /\ StatsInit /\ OtherInit

MainNext ==
    \/ MainTakePins
    \/ MainFail
    \/ EmClose
    \/ \E p \in Pins : EmWrite(p)
    \/ EmClosed
    \/ EmWake
    \/ EmStopped
    \/ MainMarkPins
    \/ MainSystemInit
    \/ MainServices
    \/ MainSpawn
    \/ MainStartExecutors
    \/ \E c \in ValveCommand : ValveSend(c)
    \/ ValveAccept
    \/ \E p \in Pins : ValveWrite(p)
    \/ ValveTimerArm
    \/ ValveTimerExpire
    \/ ValveStopped

SpecMain == InitMain /\ [][MainNext]_vars

\* the executor keeps running the valve task, and the turn timer expires
FairSpecMain == SpecMain /\ WF_vars(ValveTaskStep)

(***************************************************************************)
(* Screen: screen.rs process() and the render loop                         *)
(***************************************************************************)
\* enum Action, in declaration order
ActionOrder == <<"OpenValve", "CloseValve", "Arm", "Disarm", "Dismiss">>

Action == {ActionOrder[i] : i \in 1..Len(ActionOrder)}

ActionIndex(a) == CHOOSE i \in 1..Len(ActionOrder) : ActionOrder[i] = a

\* mutant of PagePrev: the Summary arm returns Summary
PagePrev_Stuck(page) == "Summary"

\* Page::prev
PagePrev(page) == IF page = "Summary" THEN "Battery" ELSE "Summary"

\* Page::next
PageNext(page) == IF page = "Summary" THEN "Battery" ELSE "Summary"

\* mutant of PageActions: Dismiss is added to an empty set too
PageActions_AlwaysDismiss(page, active) ==
    LET eligible == IF page = "Summary"
                    THEN {"OpenValve", "CloseValve", "Arm", "Disarm"}
                    ELSE {}
    IN  (eligible \cap active) \cup {"Dismiss"}

\* mutant of PageActions: the Battery page offers the actions of Summary
PageActions_BatteryToo(page, active) ==
    LET actions == {"OpenValve", "CloseValve", "Arm", "Disarm"} \cap active
    IN  IF actions # {} THEN actions \cup {"Dismiss"} ELSE actions

\* Page::actions, with `active` the value of Action::active()
PageActions(page, active) ==
    LET eligible == IF page = "Summary"
                    THEN {"OpenValve", "CloseValve", "Arm", "Disarm"}
                    ELSE {}
        actions  == eligible \cap active
    IN  IF actions # {} THEN actions \cup {"Dismiss"} ELSE actions

\* Option<(EnumSet<Action>, Action)>: <<>> is None, <<[enabled, selected]>> is Some
SomeActions(actions, action) == << [enabled |-> actions, selected |-> action] >>

\* Action::first(&actions).map(|action| (actions, action))
ActionFirst(actions) ==
    IF actions = {} THEN <<>>
    ELSE SomeActions(actions,
             ActionOrder[CHOOSE i \in 1..Len(ActionOrder) :
                 /\ ActionOrder[i] \in actions
                 /\ \A j \in 1..(i - 1) : ActionOrder[j] \notin actions])

\* action.prev(&actions).map(|action| (actions, action))
ActionPrev(actions, action) ==
    LET before == {i \in 1..(ActionIndex(action) - 1) : ActionOrder[i] \in actions}
    IN  IF before = {} THEN <<>>
        ELSE SomeActions(actions,
                 ActionOrder[CHOOSE i \in before : \A j \in before : j <= i])

\* action.next(&actions).map(|action| (actions, action))
ActionNext(actions, action) ==
    LET after == {i \in (ActionIndex(action) + 1)..Len(ActionOrder) : ActionOrder[i] \in actions}
    IN  IF after = {} THEN <<>>
        ELSE SomeActions(actions,
                 ActionOrder[CHOOSE i \in after : \A j \in after : i <= j])

\* Notification::notify: the wake is pending afterwards
NotificationNotify(pending) == TRUE

\* mutant of NotificationWait: the wait returns without consuming the wake
NotificationWait_KeepsWake(pending) == pending

\* Notification::wait, once it returns: the wake is consumed
NotificationWait(pending) == FALSE

\* Notification::wait returns only while a wake is pending
NotificationReady(pending) == pending

\* the DataSource the match arm for select_array index `index` inserts
MarkedBy(index) ==
    CASE index \in {0, 1, 2} -> "Page"
      [] index = 3 -> "Valve"
      [] index = 4 -> "WM"
      [] index = 5 -> "Battery"
      [] OTHER     -> "RemainingTime"

\* mutant of Triggered: the selected action is never triggered
Triggered_Never(state, index) == <<>>

\* the actions the match arm triggers, in order: action.trigger() on button 3
\* with a menu open
Triggered(state, index) ==
    IF index = 2 /\ state.page_actions # <<>>
    THEN <<state.page_actions[1].selected>>
    ELSE <<>>

\* mutant of Dispatched: every arm marks the page dirty as well
Dispatched_AlwaysPage(state, index, active) ==
    LET open    == state.page_actions # <<>>
        menu    == state.page_actions[1]
        page    == CASE index = 0 /\ ~open -> PagePrev(state.active_page)
                     [] index = 1 /\ ~open -> PageNext(state.active_page)
                     [] OTHER -> state.active_page
        actions == CASE index = 0 /\ open -> ActionPrev(menu.enabled, menu.selected)
                     [] index = 1 /\ open -> ActionNext(menu.enabled, menu.selected)
                     [] index = 2 /\ open -> <<>>
                     [] index = 2 /\ ~open -> ActionFirst(PageActions(state.active_page, active))
                     [] OTHER -> state.page_actions
    IN  [changeset |-> state.changeset \cup {MarkedBy(index), "Page"},
         active_page |-> page,
         page_actions |-> actions]

\* mutant of Dispatched: the arm assigns its flag to the changeset instead of inserting it
Dispatched_Overwrites(state, index, active) ==
    LET open    == state.page_actions # <<>>
        menu    == state.page_actions[1]
        page    == CASE index = 0 /\ ~open -> PagePrev(state.active_page)
                     [] index = 1 /\ ~open -> PageNext(state.active_page)
                     [] OTHER -> state.active_page
        actions == CASE index = 0 /\ open -> ActionPrev(menu.enabled, menu.selected)
                     [] index = 1 /\ open -> ActionNext(menu.enabled, menu.selected)
                     [] index = 2 /\ open -> <<>>
                     [] index = 2 /\ ~open -> ActionFirst(PageActions(state.active_page, active))
                     [] OTHER -> state.page_actions
    IN  [changeset |-> {MarkedBy(index)},
         active_page |-> page,
         page_actions |-> actions]

\* the ScreenState after the match arm of process() for select_array index `index`
Dispatched(state, index, active) ==
    LET open    == state.page_actions # <<>>
        menu    == state.page_actions[1]
        marked  == CASE index \in {0, 1, 2} -> "Page"
                     [] index = 3 -> "Valve"
                     [] index = 4 -> "WM"
                     [] index = 5 -> "Battery"
                     [] OTHER     -> "RemainingTime"
        page    == CASE index = 0 /\ ~open -> PagePrev(state.active_page)
                     [] index = 1 /\ ~open -> PageNext(state.active_page)
                     [] OTHER -> state.active_page
        actions == CASE index = 0 /\ open -> ActionPrev(menu.enabled, menu.selected)
                     [] index = 1 /\ open -> ActionNext(menu.enabled, menu.selected)
                     [] index = 2 /\ open -> <<>>
                     [] index = 2 /\ ~open -> ActionFirst(PageActions(state.active_page, active))
                     [] OTHER -> state.page_actions
    IN  [changeset |-> state.changeset \cup {marked},
         active_page |-> page,
         page_actions |-> actions]

\* one pass of process(): select_array resolves with `index`, the state is
\* updated under the lock, the selected action is triggered on button 3 with
\* the menu open, and the draw request is notified
ScreenDispatch(index, active) ==
    /\ notify_count < MaxBurst
    /\ screen_state' = Dispatched(screen_state, index, active)
    /\ screen_triggered' = IF index = 2 /\ screen_state.page_actions # <<>>
                           THEN screen_state.page_actions[1].selected
                           ELSE screen_triggered
    /\ draw_request' = NotificationNotify(draw_request)
    /\ notify_count' = notify_count + 1
    /\ screen_marked' = screen_marked \cup {MarkedBy(index)}
    /\ UNCHANGED <<draw_pc, draw_snapshot, screen_log, draws_in_flight>>
    /\ UNCHANGED <<otherVars, statsVars, wmVars, spinVars, mainVars, valveVars>>

\* mutant of AfterDrawStart: the loop does not await the draw it started
AfterDrawStart_NoAwait == "wait"

\* where the render loop is once it has handed the display to draw(): suspended
\* until draw() returns it (`display = draw(display, ..)`, with or without unblock)
AfterDrawStart == "draw"

\* mutant of DrawSnapshot: the changeset is emptied before the state is cloned
DrawSnapshot_AfterClear(state) == [state EXCEPT !.changeset = {}]

\* screen_state.borrow().clone(): the ScreenState the critical section returns
DrawSnapshot(state) == state

\* the render loop: DRAW_REQUEST_NOTIF.wait() returns, the state is cloned and
\* its changeset emptied under the lock
DrawWait ==
    /\ draw_pc = "wait"
    /\ NotificationReady(draw_request)
    /\ draw_request' = NotificationWait(draw_request)
    /\ notify_count' = 0
    /\ draw_snapshot' = <<DrawSnapshot(screen_state)>>
    /\ screen_state' = [screen_state EXCEPT !.changeset = {}]
    /\ draw_pc' = AfterDrawStart
    /\ draws_in_flight' = draws_in_flight + 1
    /\ screen_marked' = {}
    /\ UNCHANGED <<screen_triggered, screen_log>>
    /\ UNCHANGED <<otherVars, statsVars, wmVars, spinVars, mainVars, valveVars>>

\* draw(display, screen_state) returns the display
DrawDone ==
    /\ draw_pc = "draw"
    /\ draw_snapshot' = <<>>
    /\ draws_in_flight' = draws_in_flight - 1
    /\ draw_pc' = "wait"
    /\ UNCHANGED <<screen_state, draw_request, notify_count, screen_triggered,
                   screen_marked, screen_log>>
    /\ UNCHANGED <<otherVars, statsVars, wmVars, spinVars, mainVars, valveVars>>

\* the values of Action::active() the presses are tried with
ActiveSets == {{}, {"OpenValve", "CloseValve", "Arm", "Disarm"}}

InitScreen ==
    /\ WMInit /\ pulse_counter.wakeup_edges = 0
    /\ SpinInit /\ MainIdle /\ ValveInit /\ ScreenInit /\ StatsInit /\ OtherInit

ScreenNext ==
    \/ \E index \in 0..6 : \E active \in ActiveSets : ScreenDispatch(index, active)
    \/ DrawWait
    \/ DrawDone

SpecScreen == InitScreen /\ [][ScreenNext]_vars

\* the executor keeps running the render loop: a pending draw request wakes it,
\* and a draw that was started returns
FairSpecScreen == SpecScreen /\ WF_vars(DrawWait) /\ WF_vars(DrawDone)

\* one pass of process() while the render loop is suspended in its wait (with
\* run_draw the drawing runs to its end on the executor that runs process()),
\* recorded in screen_log: the index, the value of Action::active() where the
\* arm read it, and the actions it triggered
InputDispatch(index, active) ==
    /\ draw_pc = "wait"
    /\ notify_count < MaxBurst
    /\ screen_state' = Dispatched(screen_state, index, active)
    /\ screen_triggered' = IF Triggered(screen_state, index) # <<>>
                           THEN Triggered(screen_state, index)[1]
                           ELSE screen_triggered
    /\ screen_log' = [index  |-> index,
                      active |-> IF index = 2 /\ screen_state.page_actions = <<>>
                                 THEN active ELSE {},
                      fired  |-> Triggered(screen_state, index)]
    /\ draw_request' = NotificationNotify(draw_request)
    /\ notify_count' = notify_count + 1
    /\ screen_marked' = screen_marked \cup {MarkedBy(index)}
    /\ UNCHANGED <<draw_pc, draw_snapshot, draws_in_flight>>
    /\ UNCHANGED <<otherVars, statsVars, wmVars, spinVars, mainVars, valveVars>>

\* every value Action::active() can have
AllActiveSets == SUBSET {"OpenValve", "CloseValve", "Arm", "Disarm"}

\* the values of Action::active() a pass is tried with: only the arm of
\* button 3 reads it
ActiveRead(index) == IF index = 2 THEN AllActiveSets ELSE {{}}

InputNext ==
    \/ \E index \in 0..6 : \E active \in ActiveRead(index) : InputDispatch(index, active)
    \/ DrawWait
    \/ DrawDone

SpecInput == InitScreen /\ [][InputNext]_vars

(***************************************************************************)
(* Screen: one call of draw()                                              *)
(***************************************************************************)
\* mutant of ScreenState_changed: every accessor finds its sources changed
ScreenState_changed_Always(state, changes) == TRUE

\* ScreenState::changed: one of `changes` is in the changeset
ScreenState_changed(state, changes) ==
    \E data_source \in changes : data_source \in state.changeset

\* ScreenState::valve: Some(valve::STATE.get()) or None; the value read is
\* written as the name of its source
ScreenState_valve(state) ==
    IF ScreenState_changed(state, {"Valve", "Page"}) THEN <<"valve::STATE">> ELSE <<>>

\* ScreenState::wm
ScreenState_wm(state) ==
    IF ScreenState_changed(state, {"WM", "Page"}) THEN <<"wm::STATE">> ELSE <<>>

\* ScreenState::battery
ScreenState_battery(state) ==
    IF ScreenState_changed(state, {"Battery", "Page"}) THEN <<"battery::STATE">> ELSE <<>>

\* ScreenState::remaining_time
ScreenState_remaining_time(state) ==
    IF ScreenState_changed(state, {"RemainingTime", "Page"})
    THEN <<"keepalive::STATE">> ELSE <<>>

\* the fallible operations of draw() on the display
DisplayOp == {"clear", "page", "actions", "flush"}

\* the operations draw() asks of the display for `state`, in program order
DrawOps(state) ==
    (IF "Page" \in state.changeset THEN << [op |-> "clear"] >> ELSE <<>>)
    \o << IF state.active_page = "Summary"
          THEN [op |-> "page", page |-> "Summary",
                valve |-> ScreenState_valve(state),
                wm |-> ScreenState_wm(state),
                battery |-> ScreenState_battery(state)]
          ELSE [op |-> "page", page |-> "Battery",
                battery |-> ScreenState_battery(state)] >>
    \o (IF state.page_actions # <<>>
        THEN << [op |-> "actions", enabled |-> state.page_actions[1].enabled,
                 selected |-> state.page_actions[1].selected] >>
        ELSE <<>>)
    \o << [op |-> "flush"] >>

\* draw(display, screen_state) on a display whose operation `failing` returns
\* Err ("none": no operation fails): the operations that took effect, and
\* whether draw returned Ok(display)
Draw(state, failing) ==
    LET ops    == DrawOps(state)
        failed == {i \in 1..Len(ops) : ops[i].op = failing}
        stop   == IF failed = {} THEN Len(ops) + 1
                  ELSE CHOOSE i \in failed : \A j \in failed : i <= j
    IN  [ok |-> failed = {}, failing |-> failing, done |-> SubSeq(ops, 1, stop - 1)]

\* the menus process() can leave in page_actions on Summary
DrawMenus ==
    {<<>>} \cup UNION {{SomeActions(PageActions("Summary", active), selected) :
                            selected \in PageActions("Summary", active)} :
                        active \in AllActiveSets}

\* the changesets a snapshot can carry: everything (ScreenState::new) or what
\* process() marked since the last snapshot
DrawChangesets == {DataSource} \cup (SUBSET (DataSource \ {"WMStats"}) \ {{}})

\* the snapshots the render loop can hand to draw()
DrawInputs ==
    [changeset : DrawChangesets, active_page : {"Summary"}, page_actions : DrawMenus]
    \cup [changeset : DrawChangesets, active_page : {"Battery"}, page_actions : {<<>>}]

DrawStart ==
    /\ draw_in \in DrawInputs
    /\ draw_out = <<>>

\* the call of draw() in the render loop, on a display that fails at `failing`
DrawCall(failing) ==
    /\ draw_out = <<>>
    /\ draw_out' = <<Draw(draw_in, failing)>>
    /\ UNCHANGED draw_in
    /\ UNCHANGED <<runVars, webVars, statsVars, wmVars, spinVars, mainVars, valveVars,
                   screenVars>>

InitDraw ==
    /\ WMInit /\ pulse_counter.wakeup_edges = 0
    /\ SpinInit /\ MainIdle /\ ValveInit /\ ScreenInit /\ StatsInit /\ DrawStart
    /\ RunIdle /\ WebIdle

DrawNext == \E failing \in DisplayOp \cup {"none"} : DrawCall(failing)

SpecDraw == InitDraw /\ [][DrawNext]_vars

(***************************************************************************)
(* The executors: main.rs run(), from "Starting execution" to its return   *)
(***************************************************************************)
\* what the steps of this part leave alone
notRun == <<drawVars, webVars, statsVars, wmVars, spinVars, mainVars, valveVars,
            screenVars>>

\* mutant of ExecutorRunReturns: run() returns as soon as no task is being polled
ExecutorRunReturns_Always(quit) == TRUE

\* exec.run(ctx, until, tasks): between two polls of its tasks the executor
\* evaluates `until`, here SYSTEM.should_quit(), and returns if it is true
ExecutorRunReturns(quit) == quit

\* mutant of JoinReturns: join does not wait for the thread
JoinReturns_Detached(state) == TRUE

\* JoinHandle::join returns once the thread's closure has returned
JoinReturns(state) == state = "returned"

\* the value of SYSTEM.should_quit() changes
QuitChange(b) ==
    /\ should_quit # b
    /\ should_quit' = b
    /\ UNCHANGED <<executors, run_pc>>
    /\ UNCHANGED notRun

\* std::thread::spawn(.. executor2 ..)
RunSpawn2 ==
    /\ run_pc = "spawn2"
    /\ executors' = [executors EXCEPT ![2] = "checking"]
    /\ run_pc' = "spawn3"
    /\ UNCHANGED should_quit
    /\ UNCHANGED notRun

\* std::thread::spawn(.. executor3 ..)
RunSpawn3 ==
    /\ run_pc = "spawn3"
    /\ executors' = [executors EXCEPT ![3] = "checking"]
    /\ run_pc' = "exec1"
    /\ UNCHANGED should_quit
    /\ UNCHANGED notRun

\* executor1 is run on the calling thread
RunExec1 ==
    /\ run_pc = "exec1"
    /\ executors' = [executors EXCEPT ![1] = "checking"]
    /\ run_pc' = "in_exec1"
    /\ UNCHANGED should_quit
    /\ UNCHANGED notRun

\* executor e, with all its tasks suspended, evaluates should_quit
ExecCheck(e) ==
    /\ executors[e] = "checking"
    /\ executors' = [executors EXCEPT ![e] =
                         IF ExecutorRunReturns(should_quit) THEN "returned" ELSE "polling"]
    /\ UNCHANGED <<should_quit, run_pc>>
    /\ UNCHANGED notRun

\* executor e polls its tasks until each is suspended again
ExecPoll(e) ==
    /\ executors[e] = "polling"
    /\ executors' = [executors EXCEPT ![e] = "checking"]
    /\ UNCHANGED <<should_quit, run_pc>>
    /\ UNCHANGED notRun

\* exec.run of executor1 has returned; "Execution finished", then the 2 s sleep
RunExec1Returned ==
    /\ run_pc = "in_exec1"
    /\ executors[1] = "returned"
    /\ run_pc' = "sleep"
    /\ UNCHANGED <<should_quit, executors>>
    /\ UNCHANGED notRun

\* std::thread::sleep(2000 ms) returns
RunSleep ==
    /\ run_pc = "sleep"
    /\ run_pc' = "join2"
    /\ UNCHANGED <<should_quit, executors>>
    /\ UNCHANGED notRun

\* executor2.join()
RunJoin2 ==
    /\ run_pc = "join2"
    /\ JoinReturns(executors[2])
    /\ run_pc' = "join3"
    /\ UNCHANGED <<should_quit, executors>>
    /\ UNCHANGED notRun

\* executor3.join(), then "Finished execution" and Ok(())
RunJoin3 ==
    /\ run_pc = "join3"
    /\ JoinReturns(executors[3])
    /\ run_pc' = "done"
    /\ UNCHANGED <<should_quit, executors>>
    /\ UNCHANGED notRun

InitRun ==
    /\ WMInit /\ pulse_counter.wakeup_edges = 0
    /\ SpinInit /\ MainIdle /\ ValveInit /\ ScreenInit /\ StatsInit /\ OtherInit

\* the steps of run() itself
RunStep ==
    \/ RunSpawn2
    \/ RunSpawn3
    \/ RunExec1
    \/ RunExec1Returned
    \/ RunSleep
    \/ RunJoin2
    \/ RunJoin3

RunNext ==
    \/ \E b \in BOOLEAN : QuitChange(b)
    \/ RunStep
    \/ \E e \in 1..3 : ExecCheck(e)
    \/ \E e \in 1..3 : ExecPoll(e)

SpecRun == InitRun /\ [][RunNext]_vars

\* the threads are scheduled, every task reaches its next suspension point,
\* and the sleep ends
FairSpecRun ==
    /\ SpecRun
    /\ WF_vars(RunStep)
    /\ \A e \in 1..3 : WF_vars(ExecCheck(e)) /\ WF_vars(ExecPoll(e))

(***************************************************************************)
(* Water meter statistics: specifications                                  *)
(***************************************************************************)
\* the seconds that pass between two passes when the clock is left free
ClockSteps == {0, StatsTimerSecs, 295, 1500, 60 * 60 * 24, 60 * 60 * 24 * 30}

\* sys_time.now() when process() starts, with the clock left free
StartTimes == {0, 5}

\* process() starts at one of StartTimes
StatsStart ==
    /\ stats_state = WaterMeterStatsStateDefault
    /\ stats_sink = <<>>
    /\ sys_now \in StartTimes
    /\ stats_wm_edges = 0
    /\ stats_passes = 0
    /\ stats_branch = "none"
    /\ stats_prev = WaterMeterStatsStateDefault

InitStats ==
    /\ WMInit /\ pulse_counter.wakeup_edges = 0
    /\ SpinInit /\ MainIdle /\ ValveInit /\ ScreenInit /\ StatsStart /\ OtherInit

\* passes with a non-decreasing clock that is otherwise free
StatsNext ==
    \/ \E e \in 0..MaxStatsWmEdges : \E d \in ClockSteps :
          stats_passes < MaxPasses /\ StatsRecv(e, d)
    \/ \E d \in ClockSteps :
          stats_passes < MaxPasses /\ StatsTimeout(d)

SpecStats == InitStats /\ [][StatsNext]_vars

\* process() starts within the first timer period, nothing recorded yet
CadenceStart ==
    /\ stats_state = WaterMeterStatsStateDefault
    /\ stats_sink = <<>>
    /\ sys_now \in 0..(StatsTimerSecs - 1)
    /\ stats_wm_edges = 0
    /\ stats_passes = 0
    /\ stats_branch = "none"
    /\ stats_prev = WaterMeterStatsStateDefault

InitCadence ==
    /\ WMInit /\ pulse_counter.wakeup_edges = 0
    /\ SpinInit /\ MainIdle /\ ValveInit /\ ScreenInit /\ CadenceStart /\ OtherInit

\* a pass every 10 seconds: on the timer, or on a WaterMeterState that arrives with it
CadenceNext ==
    \/ \E e \in 0..MaxStatsWmEdges :
          sys_now + StatsTimerSecs <= CadenceEnd /\ StatsRecv(e, StatsTimerSecs)
    \/ sys_now + StatsTimerSecs <= CadenceEnd /\ StatsTimeout(StatsTimerSecs)

SpecCadence == InitCadence /\ [][CadenceNext]_vars

(***************************************************************************)
(* Valve outputs and start-up: properties                                  *)
(***************************************************************************)
Levels(power, open, close) ==
    [p \in Pins |-> CASE p = "power" -> power [] p = "open" -> open [] OTHER -> close]

\* a start_spin call has returned
SpinReturned == spin_cmd # "Idle" /\ spin_todo = {}

\* C3 (SpecSpin): from any prior levels, start_spin(Some(Open)) ends with
\* (power, open, close) = (1,1,0), start_spin(Some(Close)) with (1,0,1) and
\* start_spin(None) with (0,0,0); start_spin(None) on (0,0,0) leaves (0,0,0)
\* throughout.
C3_SpinLevels ==
    /\ (SpinReturned /\ spin_cmd = "Open")  => valve_pins = Levels(1, 1, 0)
    /\ (SpinReturned /\ spin_cmd = "Close") => valve_pins = Levels(1, 0, 1)
    /\ (SpinReturned /\ spin_cmd = "None")  => valve_pins = Levels(0, 0, 0)
    /\ (spin_cmd = "None" /\ spin_from = Levels(0, 0, 0)) => valve_pins = Levels(0, 0, 0)

\* C3 witness: an Open spin from the levels of a Close spin has returned
C3_Witness ==
    /\ SpinReturned
    /\ spin_cmd = "Open"
    /\ spin_from = Levels(1, 0, 1)
    /\ valve_pins = Levels(1, 1, 0)

C5_EmergencyFirst ==
    /\ (wakeup_reason = "ULP" /\ (system_init \/ spawned > 0 \/ main_pc = "run"))
         => em_trace = <<"Close", "Delay", "None">>
    /\ (wakeup_reason = "ULP" /\ (system_init \/ spawned > 0) /\ main_pc # "run")
         => (SpinReturned /\ spin_cmd = "None" /\ valve_pins = Levels(0, 0, 0))
    /\ (wakeup_reason # "ULP" /\ main_pc # "run")
         => (spin_cmd = "Idle" /\ em_trace = <<>> /\ valve_pins = Levels(0, 0, 0))
    /\ main_error = "emergency"
         => (~system_init /\ spawned = 0 /\ main_pc = "error")

\* C5 witness: a ULP wake whose emergency close has completed and whose tasks are all spawned
C5_Witness ==
    /\ wakeup_reason = "ULP"
    /\ system_init
    /\ spawned = Len(Tasks)
    /\ main_pc = "spawn"
    /\ em_trace = <<"Close", "Delay", "None">>

\* the valve task moves idle -> spinning -> timer -> stopping -> idle only
ValveOrder ==
    /\ (valve_pc = "idle"     /\ valve_pc' # "idle")     => valve_pc' = "spinning"
    /\ (valve_pc = "spinning" /\ valve_pc' # "spinning") => valve_pc' = "timer"
    /\ (valve_pc = "timer"    /\ valve_pc' # "timer")    => valve_pc' = "stopping"
    /\ (valve_pc = "stopping" /\ valve_pc' # "stopping") => valve_pc' = "idle"

\* what holds at each position of the valve task
ValveCycle ==
    /\ valve_pc \in {"spinning", "timer"}
         => (spin_cmd = valve_cmd /\ valve_state = Spinning(valve_cmd))
    /\ valve_pc = "timer"
         => valve_pins = (IF valve_cmd = "Open" THEN Levels(1, 1, 0) ELSE Levels(1, 0, 1))
    /\ valve_pc = "stopping"
         => (spin_cmd = "None" /\ valve_state = Spinning(valve_cmd))
    /\ (valve_pc = "idle" /\ valve_cmd # "None")
         => (valve_state = Resting(valve_cmd) /\ valve_pins = Levels(0, 0, 0))
    /\ (main_pc = "run" /\ valve_pins["power"] = 1)
         => (valve_cmd \in ValveCommand /\ valve_state = Spinning(valve_cmd))

DrawWaitReturns == draw_pc = "wait" /\ draw_pc' = "draw"

\* C2: any number (>= 1) of notify() calls on the draw request before a
\* wait() resolve exactly one wait: a wake is pending exactly when notify() was
\* called since the last wait() that returned (a notify() before the first
\* wait() is not lost), a wait() returns only on a pending wake, and it leaves
\* none pending, whatever the number of notify() calls, so that the next
\* wait() stays suspended until another notify().
C2_Coalesced ==
    /\ [](draw_request <=> notify_count > 0)
    /\ [][DrawWaitReturns =>
            (notify_count >= 1 /\ ~draw_request' /\ notify_count' = 0)]_vars

\* C2 witness: two dispatches (valve, water meter) notified before one wait;
\* that wait has returned with both flags and no wake is pending
C2_Witness ==
    /\ draw_pc = "draw"
    /\ draw_snapshot[1].changeset = {"Valve", "WM"}
    /\ ~draw_request
    /\ notify_count = 0

(***************************************************************************)
(* Water meter: properties (checked under SpecWM)                          *)
(***************************************************************************)
\* the last completed iteration of run(): <<command, delta>>
LastIter == wm_hist[Len(wm_hist)]
\* the completed iteration before the last one
PrevIter == wm_hist[Len(wm_hist) - 1]

\* C1: the sink receives a value exactly when the update changed the committed
\* value: the sink never holds two consecutive identical values, the last value
\* it received is the committed one, and while it has received nothing the
\* committed value is still the initial one (so the first value it receives
\* differs from the initial one).
C1_SinkGated ==
    LET n == Len(wm_state_sink)
    IN  /\ \A i \in 1..(n - 1) : wm_state_sink[i] # wm_state_sink[i + 1]
        /\ n > 0 => wm_state_sink[n] = wm_state
        /\ n = 0 => wm_state = WaterMeterStateDefault
        /\ (0 < n /\ n < SinkKeep) => wm_state_sink[1] # WaterMeterStateDefault

\* C1 witness: the sink has received a value and the last update was a no-op
\* (the closure applied to the committed state and the last delta gives it back)
C1_Witness ==
    /\ wm_pc = "select"
    /\ Len(wm_hist) > 0
    /\ Len(wm_state_sink) > 0
    /\ WmUpdate(wm_state, wm_data) = wm_state

\* C7: every update pass computes the new WaterMeterState from the old one and
\* the delta returned by swap_data: edges_count grows by delta.edges_count,
\* armed is (delta.wakeup_edges > 0), leaking is (delta.edges_count > 0 and old
\* armed and delta.wakeup_edges > 0), the prev_ fields are the old triple; an
\* old state that is not armed gives leaking = false, and the first poll with
\* 5 edges and threshold 0 gives {prev_edges_count 0, edges_count 5, not armed,
\* not leaking}.
C7_UpdateRule ==
    [][(wm_pc = "swap" /\ wm_pc' = "select") =>
        /\ wm_state'.edges_count = wm_state.edges_count + wm_data'.edges_count
        /\ wm_state'.armed = (wm_data'.wakeup_edges > 0)
        /\ wm_state'.leaking = (/\ wm_data'.edges_count > 0
                                /\ wm_state.armed
                                /\ wm_data'.wakeup_edges > 0)
        /\ wm_state'.prev_edges_count = wm_state.edges_count
        /\ wm_state'.prev_armed = wm_state.armed
        /\ wm_state'.prev_leaking = wm_state.leaking
        /\ (~wm_state.armed => ~wm_state'.leaking)
        /\ (/\ wm_state = WaterMeterStateDefault
            /\ wm_data' = [edges_count |-> 5, wakeup_edges |-> 0])
           => wm_state' = [prev_edges_count |-> 0, prev_armed |-> FALSE,
                           prev_leaking |-> FALSE, edges_count |-> 5,
                           armed |-> FALSE, leaking |-> FALSE]]_vars

\* C7 witness: the first poll found 5 edges with threshold 0
C7_Witness ==
    /\ wm_hist = << <<"Tick", [edges_count |-> 5, wakeup_edges |-> 0]>> >>
    /\ wm_state.edges_count = 5
    /\ wm_state.prev_edges_count = 0
    /\ ~wm_state.armed
    /\ ~wm_state.leaking

\* C8 as claimed: once an Arm command has been processed, WaterMeterState.edges_count is 0
C8_ArmResetsStateEdges ==
    (Len(wm_hist) > 0 /\ LastIter[1] = "Arm") => wm_state.edges_count = 0

\* C8 as amended: processing an Arm command resets the peripheral's edge
\* accumulator to 0 and sets its wake threshold to 1; WaterMeterState.edges_count
\* is not reset: it grows by the edges the peripheral held when the command was
\* processed.
C8_ArmResetsPeripheral ==
    [][(wm_pc = "swap" /\ wm_command = "Arm" /\ wm_pc' = "select") =>
        /\ pulse_counter'.edges_count = 0
        /\ pulse_counter'.wakeup_edges = 1
        /\ wm_state'.edges_count = wm_state.edges_count + pulse_counter.edges_count]_vars

\* C8 witness: an Arm command was processed while the peripheral held edges
C8_Witness ==
    /\ Len(wm_hist) > 0
    /\ LastIter[1] = "Arm"
    /\ LastIter[2].edges_count > 0
    /\ wm_state.edges_count > wm_state.prev_edges_count
    /\ wm_pc = "select"
    /\ pulse_counter.edges_count = 0

\* Arm processed on a disarmed meter (threshold 0), then a timer poll that
\* found 3 edges: the last two completed iterations
ArmThenPoll3 ==
    /\ Len(wm_hist) >= 2
    /\ PrevIter[1] = "Arm"
    /\ PrevIter[2].wakeup_edges = 0
    /\ LastIter[1] = "Tick"
    /\ LastIter[2].edges_count = 3

\* C9 as claimed: the state committed by that poll is armed and leaking
C9_ArmThenEdgesLeaking ==
    ArmThenPoll3 => (wm_state.armed /\ wm_state.leaking)

\* C9 as amended: from a disarmed meter, after an Arm command and 3 edges
\* before the next timer poll, the state committed by that poll has armed = true
\* and leaking = false (prev_armed = false: the Arm iteration itself committed
\* armed = false, from the threshold in force before the command).
C9_ArmThenEdgesNotLeaking ==
    ArmThenPoll3 => (wm_state.armed /\ ~wm_state.leaking /\ ~wm_state.prev_armed)

\* C9 witness: the scenario has happened
C9_Witness ==
    /\ ArmThenPoll3
    /\ wm_state.edges_count >= 3

\* C10: in every committed WaterMeterState, leaking implies armed
C10_LeakingOnlyArmed ==
    wm_state.leaking => wm_state.armed

\* C10 witness: a committed state that is leaking
C10_Witness ==
    /\ wm_state.leaking
    /\ wm_state.armed
    /\ wm_state.edges_count > wm_state.prev_edges_count

(***************************************************************************)
(* Water meter statistics: properties (SpecStats, SpecCadence)             *)
(***************************************************************************)
\* window i crossed a boundary in the last pass: the pass's time and the time
\* of the snapshot the window held lie in different DURATIONS[i]-aligned periods
Crossed(i) ==
    (sys_now \div DURATIONS[i]) > (stats_prev.snapshots[i].time \div DURATIONS[i])

\* C11 as claimed (SpecStats): a pass taken on the 10-second timeout leaves
\* most_recent.edges_count as it was before the pass.
C11_TimeoutKeepsEdges ==
    stats_branch = "timeout"
        => stats_state.most_recent.edges_count = stats_prev.most_recent.edges_count

\* C12 (SpecStats): in every pass and for each of the 8 windows, a measurement
\* is recorded exactly when the pass's time has crossed a boundary aligned to
\* multiples of the window's duration, counted from the window's own snapshot
\* time (the time lies in a later aligned period than the snapshot, which is
\* the same as: the time since the aligned boundary at or before the snapshot
\* has reached the duration); in every other pass the window's snapshot and
\* its measurement are unchanged.
C12_DueOnAlignedCrossing ==
    stats_passes > 0 =>
        \A i \in 1..FLOW_STATS_INSTANCES :
            /\ Crossed(i) <=>
                   sys_now - (stats_prev.snapshots[i].time \div DURATIONS[i]) * DURATIONS[i]
                       >= DURATIONS[i]
            /\ Crossed(i) =>
                   /\ stats_state.measurements[i] # <<>>
                   /\ stats_state.measurements[i][1].end.time = sys_now
                   /\ stats_state.measurements[i][1].start = stats_prev.snapshots[i]
                   /\ stats_state.snapshots[i] # stats_prev.snapshots[i]
            /\ ~Crossed(i) =>
                   /\ stats_state.snapshots[i] = stats_prev.snapshots[i]
                   /\ stats_state.measurements[i] = stats_prev.measurements[i]

\* C12 witness: the 5-minute window whose snapshot was taken at 305 s rotated
\* in a pass at 600 s, 295 s later, while the 30-minute window did not
C12_Witness ==
    /\ stats_passes > 0
    /\ stats_prev.snapshots[1].time = 305
    /\ sys_now = 600
    /\ stats_state.measurements[1] # <<>>
    /\ stats_state.measurements[1][1].end.time = 600
    /\ stats_state.measurements[2] = <<>>

\* C13 (SpecStats): whenever a pass changes a window, the measurement it
\* records is (start = the snapshot the window held, end = the most_recent
\* snapshot of this pass), and the window's snapshot becomes that same
\* most_recent snapshot, whose time is the time of the pass, not the boundary
\* that was crossed.
C13_RotationRecords ==
    stats_passes > 0 =>
        \A i \in 1..FLOW_STATS_INSTANCES :
            (\/ stats_state.snapshots[i] # stats_prev.snapshots[i]
             \/ stats_state.measurements[i] # stats_prev.measurements[i])
            => /\ stats_state.measurements[i] =
                      << [start |-> stats_prev.snapshots[i],
                          end   |-> stats_state.most_recent] >>
               /\ stats_state.snapshots[i] = stats_state.most_recent
               /\ stats_state.most_recent.time = sys_now

\* C13 witness: the 5-minute window rotated at 305 s, which is no boundary,
\* with edges counted, and its snapshot is (305, N)
C13_Witness ==
    /\ sys_now = 305
    /\ stats_prev.snapshots[1] = FlowSnapshot(0, 0)
    /\ stats_state.most_recent.edges_count > 0
    /\ stats_state.measurements[1] =
           << [start |-> FlowSnapshot(0, 0), end |-> stats_state.most_recent] >>
    /\ stats_state.snapshots[1] = FlowSnapshot(305, stats_state.most_recent.edges_count)

\* C14 (SpecCadence): the 5-minute window starts from the snapshot (0, 0) and a
\* pass runs every 10 seconds. No pass before 300 s records a measurement for
\* the window; the first pass at or after 300 s records {start: (0, 0), end:
\* (t, N)}, N being most_recent.edges_count of that pass, and the window's
\* snapshot becomes (t, N). With the passes at 5, 15, 25, ... seconds that pass
\* is the one at 305 s.
C14_FirstFiveMinutes ==
        /\ sys_now < 300 =>
               /\ stats_state.measurements[1] = <<>>
               /\ stats_state.snapshots[1] = FlowSnapshot(0, 0)
        /\ (300 <= sys_now /\ sys_now < 300 + StatsTimerSecs) =>
               /\ stats_state.measurements[1] =
                      << [start |-> FlowSnapshot(0, 0),
                          end   |-> FlowSnapshot(sys_now, stats_state.most_recent.edges_count)] >>
               /\ stats_state.snapshots[1] =
                      FlowSnapshot(sys_now, stats_state.most_recent.edges_count)
        /\ (300 <= sys_now /\ sys_now < 600 /\ sys_now % StatsTimerSecs = 5) =>
               /\ stats_state.measurements[1] # <<>>
               /\ stats_state.measurements[1][1].start = FlowSnapshot(0, 0)
               /\ stats_state.measurements[1][1].end.time = 305

\* C14 witness: the pass at 305 s has recorded {start: (0, 0), end: (305, N)}, N > 0
C14_Witness ==
    /\ sys_now = 305
    /\ stats_passes = 30
    /\ stats_state.most_recent.edges_count > 0
    /\ stats_state.measurements[1] =
           << [start |-> FlowSnapshot(0, 0),
               end   |-> FlowSnapshot(305, stats_state.most_recent.edges_count)] >>
    /\ stats_state.snapshots[1] = FlowSnapshot(305, stats_state.most_recent.edges_count)

\* C15 (SpecStats): with a clock that never goes back, every measurement
\* recorded in any of the 8 windows has end.time >= start.time.
C15_EndNotBeforeStart ==
    \A i \in 1..FLOW_STATS_INSTANCES :
        stats_state.measurements[i] # <<>>
            => stats_state.measurements[i][1].end.time
                   >= stats_state.measurements[i][1].start.time

\* C15 witness: a measurement that starts at a snapshot taken during the run
\* and ends later, beside one in the 30-day window
C15_Witness ==
    /\ stats_state.measurements[1] # <<>>
    /\ stats_state.measurements[1][1].start.time > 0
    /\ stats_state.measurements[1][1].end.time > stats_state.measurements[1][1].start.time
    /\ stats_state.measurements[8] # <<>>

(***************************************************************************)
(* Screen input loop: properties (SpecInput, SpecScreen)                   *)
(***************************************************************************)
\* this step is a pass of process() for select_array index `index`
DispatchStep(index) ==
    /\ notify_count' = notify_count + 1
    /\ screen_log'.index = index

\* C16 (SpecInput): with no menu open, every handled press of button 1 (prev)
\* or button 2 (next) moves active_page from Summary to Battery and from
\* Battery to Summary, and page_actions stays None.
C16_PageToggle ==
    [][\A button \in {0, 1} :
          (DispatchStep(button) /\ screen_state.page_actions = <<>>) =>
              /\ screen_state.active_page = "Summary"
                    => screen_state'.active_page = "Battery"
              /\ screen_state.active_page = "Battery"
                    => screen_state'.active_page = "Summary"
              /\ screen_state'.page_actions = <<>>]_vars

\* C16 witness: two presses since the last draw, the second one of button 1,
\* have brought the Summary page back with no menu
C16_Witness ==
    /\ screen_log.index = 0
    /\ notify_count = 2
    /\ screen_state.changeset = {"Page"}
    /\ screen_state.active_page = "Summary"
    /\ screen_state.page_actions = <<>>

\* C17 (SpecInput): a press of button 3 with no menu open takes enabled = the
\* page's eligible actions intersected with the active set. On Summary with a
\* non-empty intersection the menu opens with enabled plus Dismiss, selecting
\* the first of OpenValve, CloseValve, Arm, Disarm that is present; with an
\* empty intersection no menu opens (and Dismiss is not added); on Battery no
\* menu ever opens. The page is unchanged.
C17_MenuOpens ==
    [][(DispatchStep(2) /\ screen_state.page_actions = <<>>) =>
          LET eligible == IF screen_state.active_page = "Summary"
                          THEN {"OpenValve", "CloseValve", "Arm", "Disarm"}
                          ELSE {}
              enabled  == eligible \cap screen_log'.active
          IN  /\ screen_state'.active_page = screen_state.active_page
              /\ enabled = {} => screen_state'.page_actions = <<>>
              /\ enabled # {} =>
                    /\ screen_state'.page_actions # <<>>
                    /\ screen_state'.page_actions[1].enabled = enabled \cup {"Dismiss"}
                    /\ screen_state'.page_actions[1].selected \in enabled
                    /\ \A a \in enabled :
                          ActionIndex(screen_state'.page_actions[1].selected)
                              <= ActionIndex(a)
              /\ screen_state.active_page = "Battery"
                    => screen_state'.page_actions = <<>>]_vars

\* C17 witness: with CloseValve and Disarm active, button 3 has opened the
\* menu {CloseValve, Disarm, Dismiss} on CloseValve
C17_Witness ==
    /\ screen_log.index = 2
    /\ screen_log.active = {"CloseValve", "Disarm"}
    /\ screen_state.active_page = "Summary"
    /\ screen_state.page_actions =
           << [enabled  |-> {"CloseValve", "Disarm", "Dismiss"},
               selected |-> "CloseValve"] >>

\* C18 (SpecInput): a press of button 3 while a menu is open triggers the
\* selected action exactly once, clears page_actions and leaves active_page
\* unchanged; no other pass triggers an action.
C18_TriggerAndClose ==
    [][\A index \in 0..6 :
          DispatchStep(index) =>
              IF index = 2 /\ screen_state.page_actions # <<>>
              THEN /\ screen_log'.fired = <<screen_state.page_actions[1].selected>>
                   /\ screen_triggered' = screen_state.page_actions[1].selected
                   /\ screen_state'.page_actions = <<>>
                   /\ screen_state'.active_page = screen_state.active_page
              ELSE /\ screen_log'.fired = <<>>
                   /\ screen_triggered' = screen_triggered]_vars

\* C18 witness: button 3 has triggered Arm, reached in the menu by two presses
\* of button 2, and the menu is closed
C18_Witness ==
    /\ screen_log.index = 2
    /\ screen_log.fired = <<"Arm">>
    /\ screen_triggered = "Arm"
    /\ screen_state.page_actions = <<>>
    /\ screen_state.active_page = "Summary"

\* C19 (SpecInput): a pass for the valve, water meter, battery or remaining
\* time wake inserts exactly its flag (Valve, WM, Battery, RemainingTime) into
\* changeset; active_page, page_actions and every other flag, Page included,
\* are unchanged, and nothing is triggered.
C19_SourceMarksOnly ==
    [][\A index \in 3..6 :
          DispatchStep(index) =>
              LET flag == CASE index = 3 -> "Valve"
                            [] index = 4 -> "WM"
                            [] index = 5 -> "Battery"
                            [] index = 6 -> "RemainingTime"
              IN  /\ screen_state' =
                         [screen_state EXCEPT !.changeset = @ \cup {flag}]
                  /\ screen_log'.fired = <<>>]_vars

\* C19 witness: with a menu open and everything drawn, the remaining time wake
\* has marked RemainingTime and nothing else
C19_Witness ==
    /\ screen_log.index = 6
    /\ screen_state.changeset = {"RemainingTime"}
    /\ screen_state.page_actions # <<>>
    /\ notify_count = 1

\* C20 (SpecScreen): every pass of process() raises the draw request after it
\* has changed the state, keeping the flags marked before; the wait() of the
\* render loop returns once for all the passes since it last returned, its
\* snapshot holds exactly the union of the flags they marked, and it leaves
\* the changeset empty and no request pending, so that a further draw takes a
\* further pass.
C20_OneDrawPerBurst ==
    /\ [][(notify_count' = notify_count + 1) =>
              /\ draw_request'
              /\ screen_state.changeset \subseteq screen_state'.changeset
              /\ screen_marked' \subseteq screen_state'.changeset]_vars
    /\ [][DrawWaitReturns =>
              /\ notify_count >= 1
              /\ draw_snapshot' = << [screen_state EXCEPT !.changeset = screen_marked] >>
              /\ screen_state'.changeset = {}
              /\ ~draw_request']_vars
    /\ [][(draw_pc = "draw" /\ draw_pc' = "wait") =>
              (draw_request' <=> notify_count' > 0)]_vars

\* C20 witness: three passes (a button, the valve, the battery) since the last
\* draw were drawn by one wait, and no request is pending
C20_Witness ==
    /\ draw_pc = "draw"
    /\ draw_snapshot[1].changeset = {"Page", "Valve", "Battery"}
    /\ screen_marked = {}
    /\ ~draw_request
    /\ notify_count = 0

C22_OneDrawInFlight ==
    /\ [](draws_in_flight \in {0, 1})
    /\ []((draw_pc = "wait") <=> (draws_in_flight = 0))
    /\ [][DrawWaitReturns => (draws_in_flight = 0 /\ draws_in_flight' = 1)]_vars
    /\ [][(draws_in_flight = 1 /\ draw_snapshot' # draw_snapshot)
              => (draws_in_flight' = 0 /\ draw_snapshot' = <<>>)]_vars

\* C22 witness: a draw is in flight and MaxBurst further requests have been raised
C22_Witness ==
    /\ draws_in_flight = 1
    /\ draw_pc = "draw"
    /\ draw_request
    /\ notify_count = MaxBurst

(***************************************************************************)
(* draw(): properties                                                      *)
(***************************************************************************)
\* the operations of kind `op` among those draw() carried out
DoneOps(op) == {i \in 1..Len(draw_out[1].done) : draw_out[1].done[i].op = op}

\* C25 (SpecDraw): draw clears the screen only if Page is in the snapshot's
\* changeset (and does clear it then), draws the widgets of the active page and
\* of no other page, gives each widget a value exactly if its own flag or Page
\* is in the changeset (valve, wm, battery on Summary; battery on Battery; the
\* remaining_time accessor follows the same rule), and a draw that returns Ok
\* has flushed once, as its last operation; a draw that returns Err has not flushed.
C25_DrawRule ==
    draw_out # <<>> =>
        LET r  == draw_out[1]
            cs == draw_in.changeset
            dirty(f) == f \in cs \/ "Page" \in cs
        IN  /\ DoneOps("clear") # {} => "Page" \in cs
            /\ (r.ok /\ "Page" \in cs) => DoneOps("clear") = {1}
            /\ Cardinality(DoneOps("page")) <= 1
            /\ r.ok => Cardinality(DoneOps("page")) = 1
            /\ \A i \in DoneOps("page") :
                   LET w == r.done[i]
                   IN  /\ w.page = draw_in.active_page
                       /\ DOMAIN w = IF draw_in.active_page = "Summary"
                                     THEN {"op", "page", "valve", "wm", "battery"}
                                     ELSE {"op", "page", "battery"}
                       /\ (w.battery # <<>>) <=> dirty("Battery")
                       /\ draw_in.active_page = "Summary" =>
                              /\ (w.valve # <<>>) <=> dirty("Valve")
                              /\ (w.wm # <<>>) <=> dirty("WM")
            /\ (ScreenState_valve(draw_in) # <<>>) <=> dirty("Valve")
            /\ (ScreenState_wm(draw_in) # <<>>) <=> dirty("WM")
            /\ (ScreenState_battery(draw_in) # <<>>) <=> dirty("Battery")
            /\ (ScreenState_remaining_time(draw_in) # <<>>) <=> dirty("RemainingTime")
            /\ r.ok <=> (DoneOps("flush") = {Len(r.done)} /\ r.done # <<>>)
            /\ ~r.ok => DoneOps("flush") = {}

\* C25 witness: a successful draw of Summary with the menu open where only Valve
\* is dirty: no clear, valve has a value, wm and battery have none, then the flush
C25_Witness ==
    /\ draw_out # <<>>
    /\ draw_out[1].ok
    /\ draw_in.changeset = {"Valve"}
    /\ draw_in.active_page = "Summary"
    /\ draw_in.page_actions # <<>>
    /\ Len(draw_out[1].done) = 3
    /\ draw_out[1].done[1].valve # <<>>
    /\ draw_out[1].done[1].wm = <<>>
    /\ draw_out[1].done[3].op = "flush"

(***************************************************************************)
(* Menu: properties (SpecInput)                                            *)
(***************************************************************************)
\* C28 (SpecInput): whenever page_actions is Some((enabled, selected)), the
\* active page is Summary, selected is in enabled, and enabled holds Dismiss and
\* at least one of OpenValve, CloseValve, Arm, Disarm; a press of button 1 or
\* button 2 with the menu open leaves active_page as it is and either keeps the
\* same enabled set or closes the menu.
C28_MenuWellFormed ==
    /\ [](screen_state.page_actions # <<>> =>
              LET menu == screen_state.page_actions[1]
              IN  /\ screen_state.active_page = "Summary"
                  /\ menu.selected \in menu.enabled
                  /\ "Dismiss" \in menu.enabled
                  /\ menu.enabled \subseteq Action
                  /\ menu.enabled \ {"Dismiss"} # {})
    /\ [][\A button \in {0, 1} :
              (DispatchStep(button) /\ screen_state.page_actions # <<>>) =>
                  /\ screen_state'.active_page = screen_state.active_page
                  /\ screen_state'.page_actions # <<>> =>
                         screen_state'.page_actions[1].enabled
                             = screen_state.page_actions[1].enabled]_vars

\* C28 witness: button 2 has moved the selection of the open menu
\* {OpenValve, Arm, Dismiss} from OpenValve to Arm
C28_Witness ==
    /\ screen_log.index = 1
    /\ screen_state.active_page = "Summary"
    /\ screen_state.page_actions =
           << [enabled  |-> {"OpenValve", "Arm", "Dismiss"},
               selected |-> "Arm"] >>

(***************************************************************************)
(* Water meter: error exits, pulse accounting, the armed field             *)
(***************************************************************************)
\* the failures of peripheral access, timer arming and command receipt
EarlyFailures == {"start", "timer", "command", "get_data", "swap_data"}

\* C24 (SpecWMFail): run() returns at its first failure (start, timer arming,
\* command receipt, get_data, swap_data, state update) and does nothing
\* afterwards: no retry, no further get_data or swap_data, no command taken, no
\* update. When the failure is in peripheral access, timer arming or command
\* receipt, the committed WaterMeterState and the sink are as they were before
\* the iteration; the state and the sink change only in the update that
\* follows a successful swap_data.
C24_ReturnOnFirstError ==
    /\ []((wm_error # "none") <=> (wm_pc = "error"))
    /\ [][wm_error # "none" =>
              /\ UNCHANGED <<wm_error, wm_pc, wm_command, wm_data, wm_state,
                             wm_state_sink, wm_hist>>
              /\ pulse_counter'.wakeup_edges = pulse_counter.wakeup_edges
              /\ pulse_counter'.edges_count >= pulse_counter.edges_count
              /\ command_signal # "None" => command_signal' # "None"]_vars
    /\ [][(wm_error = "none" /\ wm_error' \in EarlyFailures) =>
              /\ wm_state' = wm_state
              /\ wm_state_sink' = wm_state_sink
              /\ wm_hist' = wm_hist
              /\ pulse_counter' = pulse_counter]_vars
    /\ [][(wm_state' # wm_state \/ wm_state_sink' # wm_state_sink) =>
              /\ wm_pc = "swap"
              /\ wm_error' \in {"none", "update"}]_vars

\* C24 witness: swap_data has failed after an edge was committed, with an
\* edge counted and a command sent that run() will never pick up
C24_Witness ==
    /\ wm_error = "swap_data"
    /\ wm_state.edges_count = 1
    /\ pulse_counter.edges_count = 1
    /\ command_signal = "Arm"
    /\ Len(wm_state_sink) > 0

\* C26 (SpecWM): no pulse is lost or counted twice. At every moment the edges
\* the peripheral has counted since construction are the committed
\* WaterMeterState.edges_count plus the edges in the peripheral's record; every
\* swap_data takes all the edges counted up to it, those counted between get_data and swap_data
\* and those counted before a command included, leaves the record at zero,
\* and the update that follows makes edges_count the total counted up to that swap.
C26_NoPulseLost ==
    /\ [](wm_state.edges_count + pulse_counter.edges_count = pulse_total)
    /\ [][(wm_pc = "swap" /\ wm_pc' = "select") =>
              /\ wm_data'.edges_count = pulse_counter.edges_count
              /\ pulse_counter'.edges_count = 0
              /\ wm_state'.edges_count = pulse_total]_vars
    /\ [][wm_state'.edges_count # wm_state.edges_count => wm_pc = "swap"]_vars

\* C26 witness: an Arm command was processed with one edge counted before the
\* command and one between get_data and swap_data, after an earlier edge came in
\* on a tick; all three are in edges_count
C26_Witness ==
    /\ Len(wm_hist) = 2
    /\ PrevIter = <<"Tick", [edges_count |-> 1, wakeup_edges |-> 0]>>
    /\ LastIter = <<"Arm", [edges_count |-> 2, wakeup_edges |-> 0]>>
    /\ wm_state.edges_count = 3
    /\ pulse_total = 3
    /\ pulse_counter = [edges_count |-> 0, wakeup_edges |-> 1]

\* the wake threshold a command asks for
ThresholdOf(command) == IF command = "Arm" THEN 1 ELSE 0

\* C27 (SpecWM): the update of the iteration that processes an Arm or Disarm
\* command is computed from the record swap_data returned, whose wake threshold
\* is the one in force before the command: that iteration commits armed =
\* (previous threshold > 0) and installs the command's threshold, and it is the
\* following iteration that reads the command's threshold and commits armed =
\* (command was Arm). leaking is true only if the threshold was above 0 in the
\* last two iterations' records, so after an Arm on a disarmed meter it is
\* false in the Arm iteration and in the next one, and can be true from the
\* second update after the Arm on.
C27_ArmedLagsCommand ==
    /\ [][(wm_pc = "swap" /\ wm_pc' = "select" /\ wm_command \in WaterMeterCommand) =>
              /\ wm_data'.wakeup_edges = pulse_counter.wakeup_edges
              /\ wm_state'.armed = (pulse_counter.wakeup_edges > 0)
              /\ pulse_counter'.wakeup_edges = ThresholdOf(wm_command)]_vars
    /\ []((Len(wm_hist) >= 2 /\ PrevIter[1] \in WaterMeterCommand) =>
              /\ LastIter[2].wakeup_edges = ThresholdOf(PrevIter[1])
              /\ wm_state.armed = (PrevIter[1] = "Arm"))
    /\ [](wm_state.leaking =>
              /\ Len(wm_hist) >= 2
              /\ LastIter[2].wakeup_edges > 0
              /\ PrevIter[2].wakeup_edges > 0)
    /\ []((Len(wm_hist) >= 1 /\ LastIter[1] = "Arm" /\ LastIter[2].wakeup_edges = 0)
              => (~wm_state.armed /\ ~wm_state.leaking))
    /\ []((Len(wm_hist) >= 2 /\ PrevIter[1] = "Arm" /\ PrevIter[2].wakeup_edges = 0)
              => (wm_state.armed /\ ~wm_state.leaking))

\* C27 witness: a Disarm was processed right after an Arm on a disarmed meter,
\* with an edge in each iteration: the state committed by the Disarm iteration
\* is armed (from the Arm) and not leaking
C27_Witness ==
    /\ Len(wm_hist) = 2
    /\ PrevIter = <<"Arm", [edges_count |-> 1, wakeup_edges |-> 0]>>
    /\ LastIter = <<"Disarm", [edges_count |-> 1, wakeup_edges |-> 1]>>
    /\ wm_state.armed
    /\ ~wm_state.prev_armed
    /\ ~wm_state.leaking
    /\ pulse_counter.wakeup_edges = 0

(***************************************************************************)
(* Water meter statistics: contiguity of the measurements (SpecStats)      *)
(***************************************************************************)
\* C29 (SpecStats): for each window i, a recorded measurement ends at the
\* window's current snapshot (measurements[i] = Some(m) implies snapshots[i] =
\* m.end), a window with no measurement still holds the default snapshot (0, 0),
\* and a measurement recorded by a pass starts where the window's previous
\* measurement ended, or at (0, 0) if the window had none.
C29_Contiguous ==
    \A i \in 1..FLOW_STATS_INSTANCES :
        /\ stats_state.measurements[i] # <<>> =>
               stats_state.snapshots[i] = stats_state.measurements[i][1].end
        /\ stats_state.measurements[i] = <<>> =>
               stats_state.snapshots[i] = FlowSnapshot(0, 0)
        /\ (stats_passes > 0 /\ stats_state.measurements[i] # stats_prev.measurements[i]) =>
               stats_state.measurements[i][1].start =
                   IF stats_prev.measurements[i] # <<>>
                   THEN stats_prev.measurements[i][1].end
                   ELSE FlowSnapshot(0, 0)

\* C29 witness: the last pass recorded the second measurement of the 5-minute
\* window, which starts at the end of the first one, after time 0
C29_Witness ==
    /\ stats_prev.measurements[1] # <<>>
    /\ stats_state.measurements[1] # stats_prev.measurements[1]
    /\ stats_state.measurements[1][1].start = stats_prev.measurements[1][1].end
    /\ stats_state.measurements[1][1].start.time > 0
    /\ stats_state.measurements[1][1].end.time > stats_state.measurements[1][1].start.time
    /\ stats_state.snapshots[1] = stats_state.measurements[1][1].end

(***************************************************************************)
(* Web middleware: ruwm-web middleware.rs send / to_request                *)
(***************************************************************************)
\* what the steps of the middleware leave alone
notWeb == <<drawVars, runVars, statsVars, wmVars, spinVars, mainVars, valveVars,
            screenVars>>

\* Option<ValveState> as carried by ValveAction::Update
WebValveValues == {"None", "Open", "Closed", "Opening", "Closing"}

\* the AppActions, by the pattern of to_request they meet: the three that map
\* to a request, another Role update, and a Battery update
AppAction ==
    {[kind |-> "Authenticating", arg |-> c] : c \in {"alice:pw", "bob:pw"}}
    \cup {[kind |-> "LoggingOut", arg |-> "-"]}
    \cup {[kind |-> "ValveUpdate", arg |-> v] : v \in WebValveValues}
    \cup {[kind |-> "RoleOther", arg |-> "-"], [kind |-> "BatteryUpdate", arg |-> "-"]}

\* to_request: the payload of the match, <<>> for None
ToPayload(action) ==
    CASE action.kind = "Authenticating" ->
             << [payload |-> "Authenticate", arg |-> action.arg] >>
      [] action.kind = "LoggingOut" ->
             << [payload |-> "Logout", arg |-> "-"] >>
      [] action.kind = "ValveUpdate" ->
             << [payload |-> "ValveCommand",
                 arg |-> IF action.arg \in {"Open", "Opening"} THEN "Open" ELSE "Close"] >>
      [] OTHER -> <<>>

\* mutant of ToRequest: the generator advances for every action
ToRequest_AlwaysAdvance(action, id_gen) ==
    LET payload == ToPayload(action)
    IN  [request |-> IF payload # <<>>
                     THEN << [id |-> id_gen, payload |-> payload[1]] >>
                     ELSE <<>>,
         request_id_gen |-> id_gen + 1]

\* to_request(&action, &mut request_id_gen): the Option<WebRequest> it returns
\* and the generator it leaves
ToRequest(action, id_gen) ==
    LET payload == ToPayload(action)
    IN  [request |-> IF payload # <<>>
                     THEN << [id |-> id_gen, payload |-> payload[1]] >>
                     ELSE <<>>,
         request_id_gen |-> IF payload # <<>> THEN id_gen + 1 ELSE id_gen]

\* the values the generator is created with
WebFirstIds == {0, 7}

WebStart ==
    /\ request_id_gen \in WebFirstIds
    /\ web_first = request_id_gen
    /\ web_actions = <<>>
    /\ web_requests = <<>>
    /\ web_dispatched = <<>>

\* the closure of send() handles one action: the request, if any, goes to the
\* sender, and the action goes on to the dispatcher
MiddlewareSend(action) ==
    /\ Len(web_actions) < MaxActions
    /\ LET r == ToRequest(action, request_id_gen)
       IN  /\ request_id_gen' = r.request_id_gen
           /\ web_requests' = web_requests \o r.request
    /\ web_dispatched' = Append(web_dispatched, action)
    /\ web_actions' = Append(web_actions, action)
    /\ UNCHANGED web_first
    /\ UNCHANGED notWeb

InitWeb ==
    /\ WMInit /\ pulse_counter.wakeup_edges = 0
    /\ SpinInit /\ MainIdle /\ ValveInit /\ ScreenInit /\ StatsInit
    /\ DrawIdle /\ RunIdle /\ WebStart

WebNext == \E action \in AppAction : MiddlewareSend(action)

SpecWeb == InitWeb /\ [][WebNext]_vars

(***************************************************************************)
(* The executors: properties (FairSpecRun)                                 *)
(***************************************************************************)
\* C23 (FairSpecRun): an executor returns only in a step in which, with its
\* tasks suspended, it finds should_quit true, and while it finds it false it
\* goes on polling; run() passes the run of executor1 only after executor1 has
\* returned, joins executor2 and then executor3 after that, and finishes only
\* after both joins, that is with all three executors returned; and if
\* should_quit becomes true and stays true, all three executors return and
\* run() finishes.
C23_QuitStopsAll ==
    /\ [][\A e \in 1..3 :
              executors'[e] # executors[e] =>
                  /\ executors'[e] = "returned" => (should_quit /\ executors[e] = "checking")
                  /\ (executors[e] = "checking" /\ ~should_quit) => executors'[e] = "polling"
                  /\ executors[e] # "returned"]_vars
    /\ [](run_pc \in {"sleep", "join2", "join3", "done"} => executors[1] = "returned")
    /\ [](run_pc \in {"join3", "done"} => executors[2] = "returned")
    /\ [](run_pc = "done" => executors[3] = "returned")
    /\ [](run_pc \in {"exec1", "in_exec1", "sleep", "join2", "join3", "done"}
              => \A e \in 2..3 : executors[e] # "idle")
    /\ (<>[]should_quit) =>
           <>(run_pc = "done" /\ \A e \in 1..3 : executors[e] = "returned")

\* C23 witness: executor3 returned first, executor1 has returned and run() is
\* held in the join of executor2, which is still polling its tasks
C23_Witness ==
    /\ run_pc = "join2"
    /\ executors = <<"returned", "polling", "returned">>
    /\ should_quit

(***************************************************************************)
(* Web middleware: properties (SpecWeb)                                    *)
(***************************************************************************)
\* the actions handled so far that are an authentication, a logout or a
\* valve update, in the order they were handled
RequestActions ==
    SelectSeq(web_actions,
              LAMBDA a : a.kind \in {"Authenticating", "LoggingOut", "ValveUpdate"})

\* C30 (SpecWeb): the requests are exactly one per handled action that is an
\* authentication, a logout or a valve update, in the order of those actions;
\* the k-th of them carries the id first + k - 1 and the payload of its action;
\* the generator stands at first + the number of requests, so other actions
\* do not advance it; and the dispatcher has received every handled action,
\* request or not, once and in order.
C30_ConsecutiveIds ==
    /\ Len(web_requests) = Len(RequestActions)
    /\ \A k \in 1..Len(web_requests) :
           /\ web_requests[k].id = web_first + k - 1
           /\ web_requests[k].payload.payload =
                  CASE RequestActions[k].kind = "Authenticating" -> "Authenticate"
                    [] RequestActions[k].kind = "LoggingOut" -> "Logout"
                    [] OTHER -> "ValveCommand"
    /\ request_id_gen = web_first + Len(web_requests)
    /\ web_dispatched = web_actions

\* C30 witness: starting at 7, a valve update, a battery update and a logout
\* were handled: ids 7 and 8 were given, the generator stands at 9
C30_Witness ==
    /\ web_first = 7
    /\ Len(web_actions) = 3
    /\ web_actions[1].kind = "ValveUpdate"
    /\ web_actions[2].kind = "BatteryUpdate"
    /\ web_actions[3].kind = "LoggingOut"
    /\ Len(web_requests) = 2
    /\ web_requests[1].id = 7
    /\ web_requests[2].id = 8
    /\ request_id_gen = 9
    /\ Len(web_dispatched) = 3

====
